---- MODULE Spec2Model ----
(***************************************************************************)
(* hisweb: the dual-path data layer of the financial-history site.         *)
(*                                                                         *)
(* Strings are sequences of one-character strings, so that slug            *)
(* normalisation, prefix tests and pattern searches are computed, not      *)
(* assumed.  Dates "YYYY-MM-DD" are the numbers YYYYMMDD: for dates of     *)
(* this one format the string order of the code is the numeric order.      *)
(* An optional value is <<>> (absent / null) or <<v>>.                     *)
(***************************************************************************)
EXTENDS Integers, Sequences, FiniteSets, TLC

VARIABLES
    seedFile,            \* seeds/financial-history.seed.json, parsed
    demoDatasetPromise,  \* demo-store.ts: the memoized snapshot promise
    db,                  \* the live relational store
    clock,               \* the store's NOW()
    resp,                \* the answer of the request handled last
    callers,             \* getDemoDataset callers awaiting / holding a dataset
    env,                 \* process.env
    builds               \* history: the seed payload each buildDataset call loaded

vars == <<seedFile, demoDatasetPromise, db, clock, resp, callers, env, builds>>

None == <<>>
Some(x) == <<x>>
IsSome(o) == o /= <<>>
Get(o) == o[1]
OrElse(o, d) == IF o = <<>> THEN d ELSE o[1]

Range(s) == {s[i] : i \in 1..Len(s)}

(***************************************************************************)
(* Characters                                                              *)
(***************************************************************************)
UpperChars == <<"A","B","C","D","E","F","G","H","I","J","K","L","M",
                "N","O","P","Q","R","S","T","U","V","W","X","Y","Z">>
LowerChars == <<"a","b","c","d","e","f","g","h","i","j","k","l","m",
                "n","o","p","q","r","s","t","u","v","w","x","y","z">>
DigitChars == <<"0","1","2","3","4","5","6","7","8","9">>

\* A precomposed letter (U+00C9, E with acute) and the combining mark
\* (U+0301) its NFKD decomposition carries.
EAcute == "E+0301"
CombiningAcute == "+0301"

UpperSet == Range(UpperChars)
LowerAlnumSet == Range(LowerChars) \cup Range(DigitChars)

\* the lower-case letter of each upper-case letter
LowerOfUpper ==
    [c \in UpperSet |-> LowerChars[CHOOSE i \in 1..Len(UpperChars) : UpperChars[i] = c]]

IsUpper(c) == c \in UpperSet
IsLowerAlnum(c) == c \in LowerAlnumSet

toLowerCaseChar(c) == IF IsUpper(c) THEN LowerOfUpper[c] ELSE c

\* String.prototype.toLowerCase
toLowerCase(s) == [i \in 1..Len(s) |-> toLowerCaseChar(s[i])]

RECURSIVE normalizeNFKD(_)
\* String.prototype.normalize("NFKD")
normalizeNFKD(s) ==
    IF s = <<>> THEN <<>>
    ELSE (IF Head(s) = EAcute THEN <<"E", CombiningAcute>> ELSE <<Head(s)>>)
         \o normalizeNFKD(Tail(s))

RECURSIVE stripCombining(_)
\* .replace(/[\u0300-\u036f]/g, "")
stripCombining(s) ==
    IF s = <<>> THEN <<>>
    ELSE (IF Head(s) = CombiningAcute THEN <<>> ELSE <<Head(s)>>)
         \o stripCombining(Tail(s))

RECURSIVE hyphenateRuns(_, _)
\* .replace(/[^a-z0-9]+/g, "-"): inRun says the previous character was
\* already part of the run being replaced
hyphenateRuns(s, inRun) ==
    IF s = <<>> THEN <<>>
    ELSE IF IsLowerAlnum(Head(s))
         THEN <<Head(s)>> \o hyphenateRuns(Tail(s), FALSE)
         ELSE (IF inRun THEN <<>> ELSE <<"-">>) \o hyphenateRuns(Tail(s), TRUE)

RECURSIVE trimLeadingHyphens(_)
trimLeadingHyphens(s) ==
    IF s /= <<>> /\ Head(s) = "-" THEN trimLeadingHyphens(Tail(s)) ELSE s

RECURSIVE trimTrailingHyphens(_)
trimTrailingHyphens(s) ==
    IF s /= <<>> /\ s[Len(s)] = "-"
    THEN trimTrailingHyphens(SubSeq(s, 1, Len(s) - 1))
    ELSE s

\* .replace(/^-+|-+$/g, "")
trimHyphens(s) == trimTrailingHyphens(trimLeadingHyphens(s))

RECURSIVE collapseHyphens(_)
\* .replace(/-+/g, "-")
collapseHyphens(s) ==
    IF Len(s) < 2 THEN s
    ELSE IF s[1] = "-" /\ s[2] = "-" THEN collapseHyphens(Tail(s))
         ELSE <<Head(s)>> \o collapseHyphens(Tail(s))

slugCore(input) ==
    collapseHyphens(trimHyphens(hyphenateRuns(
        toLowerCase(stripCombining(normalizeNFKD(input))), FALSE)))

STR_record == <<"r","e","c","o","r","d">>
STR_event == <<"e","v","e","n","t">>

\* demo-store.ts normalizeSlug
normalizeSlug(input) ==
    LET normalized == slugCore(input)
    IN IF normalized = <<>> THEN STR_record ELSE normalized

\* events.ts slugify (the live path's normaliser)
slugify(input) ==
    LET normalized == slugCore(input)
    IN IF normalized = <<>> THEN STR_event ELSE normalized

\* String.prototype.startsWith
startsWith(s, prefix) ==
    Len(s) >= Len(prefix) /\ SubSeq(s, 1, Len(prefix)) = prefix

\* String.prototype.includes
includes(hay, needle) ==
    \E i \in 1..(Len(hay) - Len(needle) + 1) :
        SubSeq(hay, i, i + Len(needle) - 1) = needle

\* crypto sha256 formatted as a UUID: a function of the hashed text alone,
\* taken as collision-free; the value stands for the digest of that text.
stableUuid(seed) == [sha256 |-> seed]

\* Array.prototype.sort with comparator "a before b" Less: stable, so an
\* element's place is the count of elements that sort before it.
StableSort(s, Less(_, _)) ==
    LET n == Len(s)
        pos(i) == 1 + Cardinality({j \in 1..n :
                        \/ Less(s[j], s[i])
                        \/ (~Less(s[i], s[j]) /\ j < i)})
    IN [k \in 1..n |-> s[CHOOSE i \in 1..n : pos(i) = k]]

RECURSIVE SeqsUpTo(_, _)
\* every sequence over S of length at most n
SeqsUpTo(S, n) ==
    IF n = 0 THEN {<<>>}
    ELSE LET shorter == SeqsUpTo(S, n - 1)
         IN shorter \cup {Append(q, x) : q \in shorter, x \in S}

(***************************************************************************)
(* demo-store.ts: the snapshot builder                                     *)
(***************************************************************************)
STR_eventColon == <<"e","v","e","n","t",":">>
STR_sourceColon == <<"s","o","u","r","c","e",":">>
STR_tagColon == <<"t","a","g",":">>
STR_timelineColon == <<"t","i","m","e","l","i","n","e",":">>

\* localeCompare on slugs: hyphen, then digits, then letters
CharRankOf ==
    [c \in LowerAlnumSet \cup {"-"} |->
        IF c = "-" THEN 0
        ELSE IF \E i \in 1..Len(DigitChars) : DigitChars[i] = c
             THEN CHOOSE i \in 1..Len(DigitChars) : DigitChars[i] = c
             ELSE 10 + (CHOOSE i \in 1..Len(LowerChars) : LowerChars[i] = c)]

CharRank(c) == IF c \in DOMAIN CharRankOf THEN CharRankOf[c] ELSE 40

RECURSIVE StrLess(_, _)
StrLess(a, b) ==
    IF b = <<>> THEN FALSE
    ELSE IF a = <<>> THEN TRUE
    ELSE IF CharRank(Head(a)) /= CharRank(Head(b))
         THEN CharRank(Head(a)) < CharRank(Head(b))
         ELSE StrLess(Tail(a), Tail(b))

\* demo-store.ts sortByEventDateAsc, as "a sorts before b"
sortByEventDateAsc(a, b) ==
    \/ a.event_date < b.event_date
    \/ (a.event_date = b.event_date /\ StrLess(a.slug, b.slug))

\* The derived timelines, in the order buildTimelines returns them
TimelineSlugs == <<
    <<"g","l","o","b","a","l","-","f","i","n","a","n","c","i","a","l","-",
      "t","u","r","n","i","n","g","-","p","o","i","n","t","s">>,
    <<"c","r","i","s","i","s","-","a","n","d","-",
      "s","t","a","b","i","l","i","z","a","t","i","o","n">>,
    <<"u","s","-","s","o","v","i","e","t","-","c","o","l","d","-","w","a","r">>,
    <<"c","h","i","n","a","-","u","s","-","s","i","n","c","e","-","1","9","0","0">>,
    <<"c","h","i","n","a","-","s","o","v","i","e","t","-",
      "r","e","l","a","t","i","o","n","s">>,
    <<"c","h","i","n","a","-","w","a","r","s","-","s","i","n","c","e","-","1","9","0","0">>,
    <<"u","s","-","w","a","r","s","-","s","i","n","c","e","-","1","9","0","0">>,
    <<"c","c","p","-","h","i","s","t","o","r","y","-","s","i","n","c","e","-","1","9","2","1">>,
    <<"w","o","r","l","d","-","w","a","r","-","i","i">> >>

\* their titles, each title taken as one value
TimelineTitles == <<
    "Global Financial Turning Points",
    "Crisis and Stabilization Cycle",
    "US-Soviet Cold War (1946-1991)",
    "China-U.S. Relations Since 1900",
    "China-Soviet Relations (1949-1991)",
    "Wars Involving China Since 1900",
    "Wars Involving the United States Since 1900",
    "CPC-Centered Timeline Since 1921",
    "World War II Timeline (1939-1945)">>

\* the titles in the order localeCompare places them
TitleCollation == <<
    "China-Soviet Relations (1949-1991)",
    "China-U.S. Relations Since 1900",
    "CPC-Centered Timeline Since 1921",
    "Crisis and Stabilization Cycle",
    "Global Financial Turning Points",
    "US-Soviet Cold War (1946-1991)",
    "Wars Involving China Since 1900",
    "Wars Involving the United States Since 1900",
    "World War II Timeline (1939-1945)">>

titleRank(title) == CHOOSE i \in 1..Len(TitleCollation) : TitleCollation[i] = title

\* slug prefixes of the prefix-matched timelines (index in TimelineSlugs)
TimelinePrefix == [k \in 3..9 |->
    CASE k = 3 -> <<"c","o","l","d","-","w","a","r","-">>
      [] k = 4 -> <<"c","h","i","n","a","-","u","s","-">>
      [] k = 5 -> <<"c","h","i","n","a","-","s","o","v","i","e","t","-">>
      [] k = 6 -> <<"c","h","i","n","a","-","w","a","r","-">>
      [] k = 7 -> <<"u","s","-","w","a","r","-">>
      [] k = 8 -> <<"c","c","p","-">>
      [] k = 9 -> <<"w","w","i","i","-">>]

\* /crash|crisis|stress|banking|default|rescue|failure/
CrisisWords == {
    <<"c","r","a","s","h">>, <<"c","r","i","s","i","s">>,
    <<"s","t","r","e","s","s">>, <<"b","a","n","k","i","n","g">>,
    <<"d","e","f","a","u","l","t">>, <<"r","e","s","c","u","e">>,
    <<"f","a","i","l","u","r","e">>}

isCrisisEvent(event) ==
    LET haystack == toLowerCase(event.title \o <<" ">> \o event.category)
    IN \E w \in CrisisWords : includes(haystack, w)

\* membership rule of timeline k
timelineMatches(k, event) ==
    IF k = 1 THEN TRUE
    ELSE IF k = 2 THEN isCrisisEvent(event)
    ELSE startsWith(event.slug, TimelinePrefix[k])

timelineId(k) == stableUuid(STR_timelineColon \o TimelineSlugs[k])

\* demo-store.ts buildTimelines
buildTimelines(events) ==
    LET publishedEvents ==
            StableSort(SelectSeq(events, LAMBDA e : e.status = "published"),
                       sortByEventDateAsc)
        members(k) == SelectSeq(publishedEvents, LAMBDA e : timelineMatches(k, e))
        rows(k) == [i \in 1..Len(members(k)) |->
                      [timeline_id |-> timelineId(k),
                       event_id |-> members(k)[i].id,
                       sequence_no |-> i]]
    IN [timelines |-> [k \in 1..Len(TimelineSlugs) |->
                          [id |-> timelineId(k), slug |-> TimelineSlugs[k],
                           title |-> TimelineTitles[k]]],
        timelineEvents |-> rows(1) \o rows(2) \o rows(3) \o rows(4) \o rows(5)
                           \o rows(6) \o rows(7) \o rows(8) \o rows(9)]

\* demo-store.ts buildTags: called with every event of the snapshot
buildTags(events) ==
    LET slugOf(i) == normalizeSlug(events[i].category)
        firstWith(i) == \A j \in 1..(i - 1) : slugOf(j) /= slugOf(i)
        firsts == SelectSeq([i \in 1..Len(events) |-> i], LAMBDA i : firstWith(i))
    IN [tags |-> [k \in 1..Len(firsts) |->
                    [id |-> stableUuid(STR_tagColon \o slugOf(firsts[k])),
                     slug |-> slugOf(firsts[k]),
                     name |-> events[firsts[k]].category]],
        eventTags |-> [i \in 1..Len(events) |->
                    [event_id |-> events[i].id,
                     tag_id |-> stableUuid(STR_tagColon \o slugOf(i))]]]

\* demo-store.ts buildDataset: the source records
buildSources(payload) ==
    [i \in 1..Len(payload.sources) |->
        [id |-> stableUuid(STR_sourceColon \o payload.sources[i].source_url),
         source_url |-> payload.sources[i].source_url,
         publication_or_snapshot_date |->
             payload.sources[i].publication_or_snapshot_date]]

\* event records whose id is derived from the position in the seed file
buildEvents_idByPosition(payload) ==
    [i \in 1..Len(payload.events) |->
        LET event == payload.events[i]
            slug == normalizeSlug(OrElse(event.slug, event.title))
            status == OrElse(event.status, "draft")
        IN [id |-> stableUuid(STR_eventColon \o <<"0","1","2","3","4","5","6","7","8","9">>[i + 1]
                                 \o slug),
            slug |-> slug,
            title |-> event.title,
            event_date |-> event.event_date,
            region |-> event.region,
            category |-> event.category,
            summary |-> event.summary,
            impact |-> event.impact,
            importance_score |-> event.importance_score,
            status |-> status,
            published_at |-> IF status = "published"
                             THEN Some(event.event_date) ELSE None]]

\* demo-store.ts buildDataset: the event records
buildEvents(payload) ==
    [i \in 1..Len(payload.events) |->
        LET event == payload.events[i]
            slug == normalizeSlug(OrElse(event.slug, event.title))
            status == OrElse(event.status, "draft")
        IN [id |-> stableUuid(STR_eventColon \o slug),
            slug |-> slug,
            title |-> event.title,
            event_date |-> event.event_date,
            region |-> event.region,
            category |-> event.category,
            summary |-> event.summary,
            impact |-> event.impact,
            importance_score |-> event.importance_score,
            status |-> status,
            published_at |-> IF status = "published"
                             THEN Some(event.event_date) ELSE None]]

\* a lookup that answers with the id the slug would have, present or not
eventIdBySlug_unchecked(events, slug) == Some(stableUuid(STR_eventColon \o slug))

\* eventIdBySlug.get(slug); new Map(entries): a later entry with the same key wins
eventIdBySlug(events, slug) ==
    LET hits == {i \in 1..Len(events) : events[i].slug = slug}
    IN IF hits = {} THEN None
       ELSE Some(events[CHOOSE i \in hits : \A j \in hits : j <= i].id)

\* sourceIdByUrl.get(url)
sourceIdByUrl(sources, url) ==
    LET hits == {i \in 1..Len(sources) : sources[i].source_url = url}
    IN IF hits = {} THEN None
       ELSE Some(sources[CHOOSE i \in hits : \A j \in hits : j <= i].id)

\* demo-store.ts buildDataset: link resolution, unresolved links are dropped
buildEventSources(payload, events, sources) ==
    LET resolved == [i \in 1..Len(payload.event_sources) |->
            LET link == payload.event_sources[i]
                eventId == eventIdBySlug(events, normalizeSlug(link.event_slug))
                sourceId == sourceIdByUrl(sources, link.source_url)
            IN IF eventId = None \/ sourceId = None THEN None
               ELSE Some([event_id |-> Get(eventId),
                          source_id |-> Get(sourceId),
                          relevance_rank |-> OrElse(link.relevance_rank, 1)])]
        kept == SelectSeq(resolved, LAMBDA row : row /= None)
    IN [i \in 1..Len(kept) |-> Get(kept[i])]

\* demo-store.ts buildDataset, after loadSeedPayload returned payload
buildDatasetFrom(payload) ==
    LET sources == buildSources(payload)
        events == buildEvents(payload)
        tl == buildTimelines(events)
        tg == buildTags(events)
    IN [sources |-> sources,
        events |-> events,
        eventSources |-> buildEventSources(payload, events, sources),
        timelines |-> tl.timelines,
        timelineEvents |-> tl.timelineEvents,
        tags |-> tg.tags,
        eventTags |-> tg.eventTags]

(***************************************************************************)
(* events.ts: the in-memory read path                                      *)
(***************************************************************************)
\* JavaScript truthiness of an optional string: null and "" are falsy
TruthyStr(o) == o /= None /\ Get(o) /= <<>>

\* events.ts matchesKeyword
matchesKeyword(haystack, query) == includes(toLowerCase(haystack), toLowerCase(query))

\* events.ts applyEventSort
applyEventSort(items, sort) ==
    IF sort = "date_asc"
    THEN StableSort(items, LAMBDA a, b : a.event_date < b.event_date)
    ELSE IF sort = "importance_desc"
    THEN StableSort(items, LAMBDA a, b :
            \/ a.importance_score > b.importance_score
            \/ (a.importance_score = b.importance_score /\ a.event_date > b.event_date))
    ELSE StableSort(items, LAMBDA a, b : a.event_date > b.event_date)

\* a slice that takes the element at index to as well
slice_inclusive(s, from, to) ==
    LET hi == IF to + 1 < Len(s) THEN to + 1 ELSE Len(s)
    IN IF from >= hi THEN <<>> ELSE SubSeq(s, from + 1, hi)

\* Array.prototype.slice(from, to) with 0-based bounds
slice(s, from, to) ==
    LET hi == IF to < Len(s) THEN to ELSE Len(s)
    IN IF from >= hi THEN <<>> ELSE SubSeq(s, from + 1, hi)

\* Math.ceil(a / b) for a >= 0, b > 0
ceilDiv(a, b) == (a + b - 1) \div b

pagination(filters, total) ==
    [page |-> filters.page,
     page_size |-> filters.pageSize,
     total |-> total,
     total_pages |-> IF total = 0 THEN 0 ELSE ceilDiv(total, filters.pageSize)]

\* the tag slugs listPublishedEventsFromDemo collects for one event id
demoTagsOf(dataset, eventId) ==
    LET links == SelectSeq(dataset.eventTags, LAMBDA et :
                    et.event_id = eventId
                    /\ \E k \in 1..Len(dataset.tags) : dataset.tags[k].id = et.tag_id)
        slugs == [i \in 1..Len(links) |->
                    dataset.tags[CHOOSE k \in 1..Len(dataset.tags) :
                        /\ dataset.tags[k].id = links[i].tag_id
                        /\ \A j \in 1..(k - 1) : dataset.tags[j].id /= links[i].tag_id].slug]
    IN StableSort(slugs, StrLess)

demoSourceCount(dataset, eventId) ==
    Cardinality({i \in 1..Len(dataset.eventSources) :
                    dataset.eventSources[i].event_id = eventId})

demoListItem(dataset, event) ==
    [id |-> event.id,
     slug |-> event.slug,
     title |-> event.title,
     event_date |-> event.event_date,
     region |-> event.region,
     category |-> event.category,
     summary |-> event.summary,
     importance_score |-> event.importance_score,
     source_count |-> demoSourceCount(dataset, event.id),
     tags |-> demoTagsOf(dataset, event.id)]

\* events.ts listPublishedEventsFromDemo, given the awaited dataset
listPublishedEventsFromDemo(dataset, filters) ==
    LET published == SelectSeq(dataset.events, LAMBDA e : e.status = "published")
        items0 == [i \in 1..Len(published) |-> demoListItem(dataset, published[i])]
        pass(item) ==
            /\ (filters.date /= None => item.event_date = Get(filters.date))
            /\ (filters.from /= None => item.event_date >= Get(filters.from))
            /\ (filters.to /= None => item.event_date <= Get(filters.to))
            /\ (TruthyStr(filters.category) => item.category = Get(filters.category))
            /\ (TruthyStr(filters.region) => item.region = Get(filters.region))
            /\ (TruthyStr(filters.tag) =>
                    \E k \in 1..Len(item.tags) : item.tags[k] = Get(filters.tag))
            /\ (filters.importanceMin /= None =>
                    item.importance_score >= Get(filters.importanceMin))
            /\ (TruthyStr(filters.q) =>
                    matchesKeyword(item.title \o <<" ">> \o item.summary \o <<" ">>
                                   \o item.category \o <<" ">> \o item.region,
                                   Get(filters.q)))
        items == applyEventSort(SelectSeq(items0, pass), filters.sort)
        offset == (filters.page - 1) * filters.pageSize
    IN [items |-> slice(items, offset, offset + filters.pageSize),
        pagination |-> pagination(filters, Len(items))]

\* events.ts getPublishedEventBySlugFromDemo, given the awaited dataset
getPublishedEventBySlugFromDemo(dataset, slug) ==
    LET hits == {i \in 1..Len(dataset.events) :
                    dataset.events[i].slug = slug
                    /\ dataset.events[i].status = "published"}
    IN IF hits = {} THEN None
       ELSE LET event == dataset.events[CHOOSE i \in hits : \A j \in hits : i <= j]
                tagIds == {dataset.eventTags[i].tag_id :
                              i \in {j \in 1..Len(dataset.eventTags) :
                                        dataset.eventTags[j].event_id = event.id}}
                tagRows == SelectSeq(dataset.tags, LAMBDA t : t.id \in tagIds)
                sourceLinks ==
                    StableSort(SelectSeq(dataset.eventSources,
                                         LAMBDA l : l.event_id = event.id),
                               LAMBDA a, b : a.relevance_rank < b.relevance_rank)
                found == SelectSeq(sourceLinks, LAMBDA l :
                            \E k \in 1..Len(dataset.sources) :
                                dataset.sources[k].id = l.source_id)
                timelineLinks ==
                    StableSort(SelectSeq(dataset.timelineEvents,
                                         LAMBDA l : l.event_id = event.id),
                               LAMBDA a, b : a.sequence_no < b.sequence_no)
            IN Some([id |-> event.id,
                     slug |-> event.slug,
                     title |-> event.title,
                     event_date |-> event.event_date,
                     published_at |-> event.published_at,
                     tags |-> StableSort([i \in 1..Len(tagRows) |-> tagRows[i].slug],
                                         StrLess),
                     sources |-> [i \in 1..Len(found) |->
                                    [id |-> found[i].source_id,
                                     publication_or_snapshot_date |->
                                         dataset.sources[CHOOSE k \in 1..Len(dataset.sources) :
                                             /\ dataset.sources[k].id = found[i].source_id
                                             /\ \A j \in 1..(k - 1) :
                                                   dataset.sources[j].id /= found[i].source_id]
                                           .publication_or_snapshot_date,
                                     relevance_rank |-> found[i].relevance_rank]],
                     timelines |-> [i \in 1..Len(timelineLinks) |->
                                    [id |-> timelineLinks[i].timeline_id,
                                     sequence_no |-> timelineLinks[i].sequence_no]]])

\* the "MM-DD" part of a date
monthDayOf(date) == date % 10000

\* events.ts listPublishedEventsByMonthDayFromDemo, given the awaited dataset
listPublishedEventsByMonthDayFromDemo(dataset, monthDay) ==
    SelectSeq(listPublishedEventsFromDemo(dataset,
                  [date |-> None, from |-> None, to |-> None, category |-> None,
                   region |-> None, tag |-> None, importanceMin |-> None,
                   q |-> None, page |-> 1, pageSize |-> 5000, sort |-> "date_desc"]).items,
              LAMBDA item : monthDayOf(item.event_date) = monthDay)

(***************************************************************************)
(* Seed content the model draws from                                       *)
(***************************************************************************)

TXT_Crash == <<"C","r","a","s","h">>
TXT_Peg == <<"P","e","g">>
TXT_CcpEra == <<"C","c","p"," ",EAcute,"r","a">>
TXT_Banking == <<"B","a","n","k","i","n","g">>
TXT_FXPolicy == <<"F","X"," ","p","o","l","i","c","y">>
TXT_US == <<"U","S">>
TXT_Asia == <<"A","s","i","a">>
TXT_Run == <<"R","u","n">>
TXT_Float == <<"F","l","o","a","t">>
TXT_AsiaHit == <<"A","s","i","a"," ","h","i","t">>
TXT_NoImpact == <<"N","o","n","e">>
URL_1 == <<"u","1">>
URL_2 == <<"u","2">>
URL_9 == <<"u","9">>

SeedEvent(slug, title, date, region, category, summary, impact, importance, status) ==
    [slug |-> slug, title |-> title, event_date |-> date, region |-> region,
     category |-> category, summary |-> summary, impact |-> impact,
     importance_score |-> importance, status |-> status]

\* Events a seed file may hold: published, archived and status-less ones,
\* a missing slug, and raw slugs that normalise to the same slug.
SeedEventPool == {
    SeedEvent(Some(<<"a">>), TXT_Crash, 19291024, TXT_US, TXT_Banking, TXT_Run,
              TXT_AsiaHit, 5, Some("published")),
    SeedEvent(Some(<<"A">>), TXT_Peg, 19710815, TXT_Asia, TXT_FXPolicy, TXT_Float,
              TXT_NoImpact, 3, Some("published")),
    SeedEvent(None, TXT_CcpEra, 19291024, TXT_Asia, TXT_FXPolicy, TXT_Run,
              TXT_NoImpact, 3, Some("published")),
    SeedEvent(Some(<<"a"," ","b">>), TXT_Peg, 20080915, TXT_US, TXT_Banking, TXT_Float,
              TXT_NoImpact, 4, None),
    SeedEvent(Some(<<"b">>), TXT_Crash, 19710815, TXT_Asia, TXT_Banking, TXT_Run,
              TXT_NoImpact, 2, Some("archived"))}

SeedSource(url, pubDate) ==
    [source_url |-> url, publication_or_snapshot_date |-> pubDate]

SeedLink(slug, url, rank) ==
    [event_slug |-> slug, source_url |-> url, quote_excerpt |-> None,
     citation_note |-> None, relevance_rank |-> rank]

\* Sources and links a seed file may hold: none, one resolvable link, and a
\* list with a dangling slug and a dangling URL among resolvable links
SeedSourceAndLinkLists == {
    [sources |-> <<>>, event_sources |-> <<>>],
    [sources |-> <<SeedSource(URL_1, Some(19710815))>>,
     event_sources |-> <<SeedLink(<<"A">>, URL_1, Some(2))>>],
    [sources |-> <<SeedSource(URL_1, None), SeedSource(URL_2, Some(20080915))>>,
     event_sources |-> <<SeedLink(<<"a">>, URL_2, None),
                         SeedLink(<<"z","z">>, URL_1, Some(1)),
                         SeedLink(<<"a">>, URL_9, Some(3)),
                         SeedLink(<<"b">>, URL_1, None)>>]}

MaxSeedEvents == 2

SeedPayloads ==
    {[sources |-> x.sources, events |-> e, event_sources |-> x.event_sources] :
        x \in SeedSourceAndLinkLists,
        e \in SeqsUpTo(SeedEventPool, MaxSeedEvents)}

NoFilters(page, pageSize, sort) ==
    [date |-> None, from |-> None, to |-> None, category |-> None,
     region |-> None, tag |-> None, importanceMin |-> None, q |-> None,
     page |-> page, pageSize |-> pageSize, sort |-> sort]

\* Requests the list route passes on (page >= 1, 1 <= page_size <= 100)
ListRequests == {
    NoFilters(1, 20, "date_desc"),
    [NoFilters(1, 20, "date_asc") EXCEPT !.from = Some(19700101)],
    NoFilters(2, 1, "importance_desc"),
    [NoFilters(1, 20, "date_desc") EXCEPT !.q = Some(<<"a","s","i","a">>)],
    [NoFilters(1, 20, "date_asc") EXCEPT !.q = Some(<<"b","a","n">>)],
    [NoFilters(1, 20, "date_desc") EXCEPT !.q = Some(<<"r","u","n">>)],
    [NoFilters(1, 20, "date_desc") EXCEPT !.tag = Some(<<"b","a","n","k","i","n","g">>)],
    [NoFilters(1, 20, "importance_desc") EXCEPT
        !.category = Some(TXT_Banking), !.importanceMin = Some(4)]}

\* Slugs asked for by the detail route: present, hidden and absent ones
SlugRequests == {<<"a">>, <<"b">>, <<"a","-","b">>, <<"z","z">>}

\* Month-day values asked for by the calendar route (MMDD)
MonthDayRequests == {1024, 815}

(***************************************************************************)
(* State                                                                   *)
(***************************************************************************)
PromiseNull == [state |-> "null", value |-> None]
PromiseFulfilled(dataset) == [state |-> "fulfilled", value |-> Some(dataset)]

EmptyDb == [events |-> <<>>, sources |-> <<>>, event_sources |-> <<>>,
            tags |-> <<>>, event_tags |-> <<>>,
            timelines |-> <<>>, timeline_events |-> <<>>]

NoResp == [op |-> "none"]

\* the built snapshot, once the build has completed
snapshotBuilt == demoDatasetPromise.state = "fulfilled"
snapshot == Get(demoDatasetPromise.value)

hasEventId(dataset, id) ==
    \E i \in 1..Len(dataset.events) : dataset.events[i].id = id
hasSourceId(dataset, id) ==
    \E i \in 1..Len(dataset.sources) : dataset.sources[i].id = id
hasPublishedEventId(dataset, id) ==
    \E i \in 1..Len(dataset.events) :
        dataset.events[i].id = id /\ dataset.events[i].status = "published"

\* the seed holds a link whose slug or URL no seed event or source has
seedHasDanglingLink ==
    \E i \in 1..Len(seedFile.event_sources) :
        \/ \A j \in 1..Len(seedFile.events) :
              normalizeSlug(OrElse(seedFile.events[j].slug, seedFile.events[j].title))
                  /= normalizeSlug(seedFile.event_sources[i].event_slug)
        \/ \A j \in 1..Len(seedFile.sources) :
              seedFile.sources[j].source_url /= seedFile.event_sources[i].source_url

\* C7: in every built snapshot every event referenced by an eventTags link,
\* by a timelineEvents membership or by a public listing is a published event
C7_OnlyPublishedReferenced ==
    /\ snapshotBuilt =>
        /\ \A i \in 1..Len(snapshot.eventTags) :
              hasPublishedEventId(snapshot, snapshot.eventTags[i].event_id)
        /\ \A i \in 1..Len(snapshot.timelineEvents) :
              hasPublishedEventId(snapshot, snapshot.timelineEvents[i].event_id)
    /\ (resp.op = "listPublishedEvents" /\ resp.path = "demo") =>
          \A i \in 1..Len(resp.result.items) :
              hasPublishedEventId(snapshot, resp.result.items[i].id)

\* C8: every link of the built snapshot's eventSources names an event id of
\* snapshot.events and a source id of snapshot.sources; the build completes
\* also for seeds with dangling links
C8_LinksResolve ==
    snapshotBuilt =>
        \A i \in 1..Len(snapshot.eventSources) :
            /\ hasEventId(snapshot, snapshot.eventSources[i].event_id)
            /\ hasSourceId(snapshot, snapshot.eventSources[i].source_id)

\* a seed with dangling links was built, some links kept and some dropped
C8_Witness ==
    /\ snapshotBuilt
    /\ seedHasDanglingLink
    /\ Len(snapshot.eventSources) >= 1
    /\ Len(snapshot.eventSources) < Len(seedFile.event_sources)

\* C9: no two events of a listing result share a slug
C9_ListingSlugsDistinct ==
    (resp.op \in {"listPublishedEvents", "listPublishedEventsByMonthDay"}) =>
        LET items == IF resp.op = "listPublishedEvents"
                     THEN resp.result.items ELSE resp.result
        IN \A i, j \in 1..Len(items) : items[i].slug = items[j].slug => i = j


(***************************************************************************)
(* The live store: tables of schema.sql and the statements run on them     *)
(***************************************************************************)
\* gen_random_uuid(): a value no row of the table has had before (rows are
\* never deleted, so the row count numbers the values handed out)
newId(rows) == [uuid |-> Len(rows) + 1]

\* String(n) for n >= 0
RECURSIVE decimal(_)
decimal(n) ==
    IF n < 10 THEN <<DigitChars[n + 1]>>
    ELSE decimal(n \div 10) \o <<DigitChars[(n % 10) + 1]>>

eventIndexBySlug(d, slug) == {i \in 1..Len(d.events) : d.events[i].slug = slug}
eventIndexById(d, id) == {i \in 1..Len(d.events) : d.events[i].id = id}
sourceIndexByUrl(d, url) == {i \in 1..Len(d.sources) : d.sources[i].source_url = url}

\* events.ts getNextAvailableSlug: the rows of SELECT slug FROM events
\* WHERE slug = $1 OR slug LIKE $2, as a set
existingSlugs(d, normalized) ==
    {d.events[i].slug : i \in {j \in 1..Len(d.events) :
        \/ d.events[j].slug = normalized
        \/ startsWith(d.events[j].slug, normalized \o <<"-">>)}}

\* events.ts getNextAvailableSlug: the while loop, entered with suffix
RECURSIVE nextSuffix(_, _, _)
nextSuffix(existing, normalized, suffix) ==
    IF (normalized \o <<"-">> \o decimal(suffix)) \in existing
    THEN nextSuffix(existing, normalized, suffix + 1)
    ELSE suffix

\* a suffix taken from the number of rows found
getNextAvailableSlug_fromCount(d, baseSlug) ==
    LET normalized == slugify(baseSlug)
        existing == existingSlugs(d, normalized)
    IN IF normalized \notin existing THEN normalized
       ELSE normalized \o <<"-">> \o decimal(Cardinality(existing) + 1)

\* events.ts getNextAvailableSlug
getNextAvailableSlug(d, baseSlug) ==
    LET normalized == slugify(baseSlug)
        existing == existingSlugs(d, normalized)
    IN IF normalized \notin existing THEN normalized
       ELSE normalized \o <<"-">> \o decimal(nextSuffix(existing, normalized, 2))

\* COALESCE(published_at, NOW())
coalescePublishedAt_overwrite(publishedAt, now) == Some(now)

coalescePublishedAt(publishedAt, now) ==
    IF publishedAt /= None THEN publishedAt ELSE Some(now)

\* events.ts createEvent: the INSERT, with the slug getNextAvailableSlug gave
insertDraftEvent(d, input, slug) ==
    [d EXCEPT !.events = Append(d.events,
                [id |-> newId(d.events),
                 slug |-> slug,
                 title |-> input.title,
                 event_date |-> input.event_date,
                 region |-> input.region,
                 category |-> input.category,
                 summary |-> input.summary,
                 impact |-> input.impact,
                 importance_score |-> input.importance_score,
                 status |-> "draft",
                 published_at |-> None])]

\* events.ts updateEvent: the UPDATE of the given columns
updateEventRow(row, input) ==
    [row EXCEPT !.slug = OrElse(input.slug, row.slug),
                !.title = OrElse(input.title, row.title)]

\* events.ts publishEvent: the UPDATE
publishEventRow(row, now) ==
    [row EXCEPT !.status = "published",
                !.published_at = coalescePublishedAt(row.published_at, now)]

\* events.ts archiveEvent: the UPDATE
archiveEventRow(row) == [row EXCEPT !.status = "archived"]

\* ingestion.ts runIngestionImport: one source upsert (ON CONFLICT (source_url))
upsertSource(d, source) ==
    LET hits == sourceIndexByUrl(d, source.source_url)
    IN IF hits = {}
       THEN [d EXCEPT !.sources = Append(d.sources,
                        [id |-> newId(d.sources),
                         source_url |-> source.source_url,
                         publication_or_snapshot_date |->
                             source.publication_or_snapshot_date])]
       ELSE LET i == CHOOSE i \in hits : TRUE
            IN [d EXCEPT !.sources[i].publication_or_snapshot_date =
                             source.publication_or_snapshot_date]

\* ingestion.ts runIngestionImport: one event upsert (ON CONFLICT (slug))
upsertEvent(d, event, now) ==
    LET slug == IF event.slug /= None THEN Get(event.slug) ELSE slugify(event.title)
        status == OrElse(event.status, "draft")
        hits == eventIndexBySlug(d, slug)
    IN IF hits = {}
       THEN [d EXCEPT !.events = Append(d.events,
                        [id |-> newId(d.events),
                         slug |-> slug,
                         title |-> event.title,
                         event_date |-> event.event_date,
                         region |-> event.region,
                         category |-> event.category,
                         summary |-> event.summary,
                         impact |-> event.impact,
                         importance_score |-> event.importance_score,
                         status |-> status,
                         published_at |-> IF status = "published"
                                          THEN Some(now) ELSE None])]
       ELSE LET i == CHOOSE i \in hits : TRUE
            IN [d EXCEPT !.events[i] =
                    [@ EXCEPT !.title = event.title,
                              !.event_date = event.event_date,
                              !.region = event.region,
                              !.category = event.category,
                              !.summary = event.summary,
                              !.impact = event.impact,
                              !.importance_score = event.importance_score,
                              !.status = status,
                              !.published_at =
                                  IF status = "published"
                                  THEN coalescePublishedAt(@, now)
                                  ELSE @]]

\* a link statement without its ON CONFLICT clause
upsertLink_insertOnly(d, link) ==
    LET eventHits == eventIndexBySlug(d, link.event_slug)
        sourceHits == sourceIndexByUrl(d, link.source_url)
    IN IF eventHits = {} \/ sourceHits = {}
       THEN [db |-> d, upserted |-> FALSE]
       ELSE [db |-> [d EXCEPT !.event_sources = Append(d.event_sources,
                        [event_id |-> d.events[CHOOSE i \in eventHits : TRUE].id,
                         source_id |-> d.sources[CHOOSE i \in sourceHits : TRUE].id,
                         quote_excerpt |-> link.quote_excerpt,
                         citation_note |-> link.citation_note,
                         relevance_rank |-> OrElse(link.relevance_rank, 1)])],
             upserted |-> TRUE]

\* ingestion.ts runIngestionImport: one link, resolved by raw slug and URL;
\* the result tells whether the link was upserted or skipped
upsertLink(d, link) ==
    LET eventHits == eventIndexBySlug(d, link.event_slug)
        sourceHits == sourceIndexByUrl(d, link.source_url)
    IN IF eventHits = {} \/ sourceHits = {}
       THEN [db |-> d, upserted |-> FALSE]
       ELSE LET eventId == d.events[CHOOSE i \in eventHits : TRUE].id
                sourceId == d.sources[CHOOSE i \in sourceHits : TRUE].id
                rank == OrElse(link.relevance_rank, 1)
                old == {i \in 1..Len(d.event_sources) :
                            /\ d.event_sources[i].event_id = eventId
                            /\ d.event_sources[i].source_id = sourceId}
            IN [db |-> IF old = {}
                       THEN [d EXCEPT !.event_sources = Append(d.event_sources,
                                [event_id |-> eventId, source_id |-> sourceId,
                                 quote_excerpt |-> link.quote_excerpt,
                                 citation_note |-> link.citation_note,
                                 relevance_rank |-> rank])]
                       ELSE [d EXCEPT !.event_sources[CHOOSE i \in old : TRUE] =
                                [@ EXCEPT !.quote_excerpt = link.quote_excerpt,
                                          !.citation_note = link.citation_note,
                                          !.relevance_rank = rank]],
                upserted |-> TRUE]

RECURSIVE upsertSources(_, _)
upsertSources(d, sources) ==
    IF sources = <<>> THEN d
    ELSE upsertSources(upsertSource(d, Head(sources)), Tail(sources))

RECURSIVE upsertEvents(_, _, _)
upsertEvents(d, events, now) ==
    IF events = <<>> THEN d
    ELSE upsertEvents(upsertEvent(d, Head(events), now), Tail(events), now)

\* the link loop: the store it leaves and the result counters it adds
RECURSIVE upsertLinks(_, _)
upsertLinks(d, links) ==
    IF links = <<>> THEN [db |-> d, upserted |-> 0, skipped |-> 0]
    ELSE LET one == upsertLink(d, Head(links))
             rest == upsertLinks(one.db, Tail(links))
         IN [db |-> rest.db,
             upserted |-> rest.upserted + (IF one.upserted THEN 1 ELSE 0),
             skipped |-> rest.skipped + (IF one.upserted THEN 0 ELSE 1)]

\* CHECK (importance_score BETWEEN 1 AND 5), CHECK (relevance_rank BETWEEN 1 AND 10)
\* and the event_status enum: a statement of the import that the store rejects
importStatementFails(payload) ==
    \/ \E i \in 1..Len(payload.events) :
          \/ payload.events[i].importance_score \notin 1..5
          \/ OrElse(payload.events[i].status, "draft")
                \notin {"draft", "review", "published", "archived"}
    \/ \E i \in 1..Len(payload.event_sources) :
          OrElse(payload.event_sources[i].relevance_rank, 1) \notin 1..10

\* ingestion.ts runIngestionImport from BEGIN to COMMIT or ROLLBACK:
\* the store afterwards and the result object
runIngestionImport(d, payload, now) ==
    LET afterSources == upsertSources(d, payload.sources)
        afterEvents == upsertEvents(afterSources, payload.events, now)
        afterLinks == upsertLinks(afterEvents, payload.event_sources)
    IN IF importStatementFails(payload)
       THEN [db |-> d,
             result |-> [committed |-> FALSE, errors |-> 1]]
       ELSE [db |-> afterLinks.db,
             result |-> [committed |-> TRUE,
                         sources_upserted |-> Len(payload.sources),
                         events_upserted |-> Len(payload.events),
                         event_source_links_upserted |-> afterLinks.upserted,
                         errors |-> afterLinks.skipped]]

(***************************************************************************)
(* The live read queries                                                   *)
(***************************************************************************)
\* The row orders a query may return: every arrangement of the rows in
\* which no row comes after one that ORDER BY places strictly later.
OrderedBy(rows, Before(_, _)) ==
    LET n == Len(rows)
        perms == {p \in [1..n -> 1..n] : \A i, j \in 1..n : p[i] = p[j] => i = j}
    IN {[k \in 1..n |-> rows[p[k]]] :
            p \in {q \in perms : \A i, j \in 1..n :
                        i < j => ~Before(rows[q[j]], rows[q[i]])}}

\* a character the text search parser keeps inside a word
WordChars == LowerAlnumSet \cup UpperSet \cup {EAcute}
IsWordChar(c) == c \in WordChars

\* the words of a text under the 'simple' text search configuration:
\* maximal runs of letters and digits, lower-cased
RECURSIVE tsWords(_, _)
tsWords(text, word) ==
    IF text = <<>>
    THEN (IF word = <<>> THEN {} ELSE {word})
    ELSE IF IsWordChar(Head(text))
         THEN tsWords(Tail(text), Append(word, toLowerCaseChar(Head(text))))
         ELSE (IF word = <<>> THEN {} ELSE {word}) \cup tsWords(Tail(text), <<>>)

\* to_tsvector('simple', doc) @@ plainto_tsquery('simple', q)
tsMatch(doc, q) ==
    /\ tsWords(q, <<>>) /= {}
    /\ tsWords(q, <<>>) \subseteq tsWords(doc, <<>>)

\* the tag slugs json_agg(t.slug ORDER BY t.slug) collects for one event
liveTagsOf(d, eventId) ==
    LET links == SelectSeq(d.event_tags, LAMBDA et : et.event_id = eventId)
        slugs == [i \in 1..Len(links) |->
                    d.tags[CHOOSE k \in 1..Len(d.tags) :
                                d.tags[k].id = links[i].tag_id].slug]
    IN StableSort(slugs, StrLess)

liveSourceCount(d, eventId) ==
    Cardinality({i \in 1..Len(d.event_sources) : d.event_sources[i].event_id = eventId})

\* a WHERE clause without the status condition
buildEventWhere_anyStatus(d, filters) == d.events

\* events.ts buildEventWhere: the rows of events the WHERE clause keeps
buildEventWhere(d, filters) ==
    SelectSeq(d.events, LAMBDA e :
        /\ e.status = "published"
        /\ (filters.date /= None => e.event_date = Get(filters.date))
        /\ (filters.from /= None => e.event_date >= Get(filters.from))
        /\ (filters.to /= None => e.event_date <= Get(filters.to))
        /\ (TruthyStr(filters.category) => e.category = Get(filters.category))
        /\ (TruthyStr(filters.region) => e.region = Get(filters.region))
        /\ (TruthyStr(filters.tag) =>
                \E k \in 1..Len(liveTagsOf(d, e.id)) :
                    liveTagsOf(d, e.id)[k] = Get(filters.tag))
        /\ (filters.importanceMin /= None =>
                e.importance_score >= Get(filters.importanceMin))
        /\ (TruthyStr(filters.q) =>
                tsMatch(e.title \o <<" ">> \o e.summary \o <<" ">> \o e.impact,
                        Get(filters.q))))

\* events.ts resolveSort, as "a is placed strictly before b"
resolveSort(sort, a, b) ==
    IF sort = "date_asc" THEN a.event_date < b.event_date
    ELSE IF sort = "importance_desc"
    THEN \/ a.importance_score > b.importance_score
         \/ (a.importance_score = b.importance_score /\ a.event_date > b.event_date)
    ELSE a.event_date > b.event_date

liveListItem(d, e) ==
    [id |-> e.id,
     slug |-> e.slug,
     title |-> e.title,
     event_date |-> e.event_date,
     region |-> e.region,
     category |-> e.category,
     summary |-> e.summary,
     importance_score |-> e.importance_score,
     source_count |-> liveSourceCount(d, e.id),
     tags |-> liveTagsOf(d, e.id)]

\* events.ts listPublishedEvents, live branch: the results the count query
\* and the list query can give on store d
listPublishedEventsLive(d, filters) ==
    LET kept == buildEventWhere(d, filters)
        offset == (filters.page - 1) * filters.pageSize
    IN {[items |-> [i \in 1..Len(slice(rows, offset, offset + filters.pageSize)) |->
                      liveListItem(d, slice(rows, offset, offset + filters.pageSize)[i])],
         pagination |-> pagination(filters, Len(kept))] :
            rows \in OrderedBy(kept, LAMBDA a, b : resolveSort(filters.sort, a, b))}

\* events.ts getPublishedEventBySlug, live branch
getPublishedEventBySlugLive(d, slug) ==
    LET hits == {i \in 1..Len(d.events) :
                    d.events[i].slug = slug /\ d.events[i].status = "published"}
    IN IF hits = {} THEN {None}
       ELSE LET e == d.events[CHOOSE i \in hits : TRUE]
                pubDate(l) == d.sources[CHOOSE k \in 1..Len(d.sources) :
                                  d.sources[k].id = l.source_id].publication_or_snapshot_date
                links == SelectSeq(d.event_sources, LAMBDA l : l.event_id = e.id)
                tls == SelectSeq(d.timeline_events, LAMBDA l : l.event_id = e.id)
            IN {Some([id |-> e.id,
                      slug |-> e.slug,
                      title |-> e.title,
                      event_date |-> e.event_date,
                      published_at |-> e.published_at,
                      tags |-> liveTagsOf(d, e.id),
                      sources |-> [i \in 1..Len(ls) |->
                                     [id |-> ls[i].source_id,
                                      publication_or_snapshot_date |-> pubDate(ls[i]),
                                      relevance_rank |-> ls[i].relevance_rank]],
                      timelines |-> [i \in 1..Len(ts) |->
                                     [id |-> ts[i].timeline_id,
                                      sequence_no |-> ts[i].sequence_no]]]) :
                    ls \in OrderedBy(links, LAMBDA a, b :
                            \/ a.relevance_rank < b.relevance_rank
                            \/ /\ a.relevance_rank = b.relevance_rank
                               /\ pubDate(a) /= None
                               /\ (pubDate(b) = None \/ Get(pubDate(a)) > Get(pubDate(b)))),
                    ts \in OrderedBy(tls, LAMBDA a, b : a.sequence_no < b.sequence_no)}

\* events.ts listPublishedEventsByMonthDay, live branch
listPublishedEventsByMonthDayLive(d, monthDay) ==
    LET kept == SelectSeq(d.events, LAMBDA e :
                    e.status = "published" /\ monthDayOf(e.event_date) = monthDay)
    IN {[i \in 1..Len(rows) |-> liveListItem(d, rows[i])] :
            rows \in OrderedBy(kept, LAMBDA a, b :
                \/ a.event_date > b.event_date
                \/ (a.event_date = b.event_date
                    /\ a.importance_score > b.importance_score))}

(***************************************************************************)
(* timelines.ts and sources.ts: the read paths                             *)
(***************************************************************************)
\* publishedEventById.get(id): the last published event with that id
publishedEventById(dataset, id) ==
    LET hits == {i \in 1..Len(dataset.events) :
                    dataset.events[i].id = id /\ dataset.events[i].status = "published"}
    IN IF hits = {} THEN None
       ELSE Some(dataset.events[CHOOSE i \in hits : \A j \in hits : j <= i])

\* dataset.events.find(id and published): the first such event
findPublishedEvent(dataset, id) ==
    LET hits == {i \in 1..Len(dataset.events) :
                    dataset.events[i].id = id /\ dataset.events[i].status = "published"}
    IN IF hits = {} THEN None
       ELSE Some(dataset.events[CHOOSE i \in hits : \A j \in hits : i <= j])

minDate(dates) == IF dates = {} THEN None ELSE Some(CHOOSE x \in dates : \A y \in dates : x <= y)
maxDate(dates) == IF dates = {} THEN None ELSE Some(CHOOSE x \in dates : \A y \in dates : x >= y)

\* timelines.ts listTimelinesPublic, in-memory branch
listTimelinesPublicFromDemo(dataset) ==
    LET item(timeline) ==
            LET links == SelectSeq(dataset.timelineEvents,
                                   LAMBDA l : l.timeline_id = timeline.id)
                members == SelectSeq([i \in 1..Len(links) |->
                                        publishedEventById(dataset, links[i].event_id)],
                                     LAMBDA m : m /= None)
                dates == {Get(members[i]).event_date : i \in 1..Len(members)}
            IN [id |-> timeline.id,
                title |-> timeline.title,
                slug |-> timeline.slug,
                event_count |-> Len(members),
                first_event_date |-> minDate(dates),
                last_event_date |-> maxDate(dates)]
    IN StableSort([k \in 1..Len(dataset.timelines) |-> item(dataset.timelines[k])],
                  LAMBDA a, b : titleRank(a.title) < titleRank(b.title))

timelineEventItem(event, sequenceNo) ==
    [id |-> event.id,
     slug |-> event.slug,
     title |-> event.title,
     event_date |-> event.event_date,
     sequence_no |-> sequenceNo]

\* timelines.ts getTimelineBySlug, in-memory branch
getTimelineBySlugFromDemo(dataset, slug) ==
    LET hits == {k \in 1..Len(dataset.timelines) : dataset.timelines[k].slug = slug}
    IN IF hits = {} THEN None
       ELSE LET timeline == dataset.timelines[CHOOSE k \in hits : \A j \in hits : k <= j]
                links == StableSort(SelectSeq(dataset.timelineEvents,
                                        LAMBDA l : l.timeline_id = timeline.id),
                                    LAMBDA a, b : a.sequence_no < b.sequence_no)
                found == SelectSeq(links, LAMBDA l :
                            findPublishedEvent(dataset, l.event_id) /= None)
            IN Some([id |-> timeline.id,
                     slug |-> timeline.slug,
                     title |-> timeline.title,
                     events |-> [i \in 1..Len(found) |->
                        timelineEventItem(
                            Get(findPublishedEvent(dataset, found[i].event_id)),
                            found[i].sequence_no)]])

sourceLinkedEvent(event, link) ==
    [id |-> event.id,
     slug |-> event.slug,
     title |-> event.title,
     event_date |-> event.event_date,
     relevance_rank |-> link.relevance_rank]

\* a lookup that compares the requested id with the source's URL
getSourceByIdFromDemo_byUrl(dataset, sourceId) ==
    LET hits == {k \in 1..Len(dataset.sources) :
                    stableUuid(dataset.sources[k].source_url) = sourceId}
    IN IF hits = {} THEN None
       ELSE Some([id |-> dataset.sources[CHOOSE k \in hits : TRUE].id,
                  source_url |-> dataset.sources[CHOOSE k \in hits : TRUE].source_url,
                  linked_events |-> <<>>])

\* sources.ts getSourceById, in-memory branch
getSourceByIdFromDemo(dataset, sourceId) ==
    LET hits == {k \in 1..Len(dataset.sources) : dataset.sources[k].id = sourceId}
    IN IF hits = {} THEN None
       ELSE LET source == dataset.sources[CHOOSE k \in hits : \A j \in hits : k <= j]
                links == StableSort(SelectSeq(dataset.eventSources,
                                        LAMBDA l : l.source_id = sourceId),
                                    LAMBDA a, b : a.relevance_rank > b.relevance_rank)
                found == SelectSeq(links, LAMBDA l :
                            findPublishedEvent(dataset, l.event_id) /= None)
                linked == [i \in 1..Len(found) |->
                            sourceLinkedEvent(
                                Get(findPublishedEvent(dataset, found[i].event_id)),
                                found[i])]
            IN Some([id |-> source.id,
                     source_url |-> source.source_url,
                     linked_events |-> StableSort(linked,
                        LAMBDA a, b : a.event_date > b.event_date)])

eventById(d, id) == d.events[CHOOSE i \in 1..Len(d.events) : d.events[i].id = id]

\* timelines.ts listTimelinesPublic, live branch
listTimelinesPublicLive(d) ==
    LET item(timeline) ==
            LET members == {i \in 1..Len(d.timeline_events) :
                              /\ d.timeline_events[i].timeline_id = timeline.id
                              /\ eventById(d, d.timeline_events[i].event_id).status
                                    = "published"}
                dates == {eventById(d, d.timeline_events[i].event_id).event_date :
                              i \in members}
            IN [id |-> timeline.id,
                title |-> timeline.title,
                slug |-> timeline.slug,
                event_count |-> Cardinality(members),
                first_event_date |-> minDate(dates),
                last_event_date |-> maxDate(dates)]
    IN OrderedBy([k \in 1..Len(d.timelines) |-> item(d.timelines[k])],
                 LAMBDA a, b : titleRank(a.title) < titleRank(b.title))

\* timelines.ts getTimelineBySlug, live branch
getTimelineBySlugLive(d, slug) ==
    LET hits == {k \in 1..Len(d.timelines) : d.timelines[k].slug = slug}
    IN IF hits = {} THEN {None}
       ELSE LET timeline == d.timelines[CHOOSE k \in hits : TRUE]
                links == SelectSeq(d.timeline_events, LAMBDA l :
                            /\ l.timeline_id = timeline.id
                            /\ eventById(d, l.event_id).status = "published")
            IN {Some([id |-> timeline.id,
                      slug |-> timeline.slug,
                      title |-> timeline.title,
                      events |-> [i \in 1..Len(rows) |->
                          timelineEventItem(eventById(d, rows[i].event_id),
                                            rows[i].sequence_no)]]) :
                    rows \in OrderedBy(links, LAMBDA a, b :
                        \/ a.sequence_no < b.sequence_no
                        \/ /\ a.sequence_no = b.sequence_no
                           /\ eventById(d, a.event_id).event_date
                                > eventById(d, b.event_id).event_date)}

\* sources.ts getSourceById, live branch
getSourceByIdLive(d, sourceId) ==
    LET hits == {k \in 1..Len(d.sources) : d.sources[k].id = sourceId}
    IN IF hits = {} THEN {None}
       ELSE LET source == d.sources[CHOOSE k \in hits : TRUE]
                links == SelectSeq(d.event_sources, LAMBDA l :
                            /\ l.source_id = sourceId
                            /\ eventById(d, l.event_id).status = "published")
            IN {Some([id |-> source.id,
                      source_url |-> source.source_url,
                      linked_events |-> [i \in 1..Len(rows) |->
                          sourceLinkedEvent(eventById(d, rows[i].event_id), rows[i])]]) :
                    rows \in OrderedBy(links, LAMBDA a, b :
                        \/ eventById(d, a.event_id).event_date
                              > eventById(d, b.event_id).event_date
                        \/ /\ eventById(d, a.event_id).event_date
                                = eventById(d, b.event_id).event_date
                           /\ a.relevance_rank < b.relevance_rank)}

(***************************************************************************)
(* Remaining live writes                                                   *)
(***************************************************************************)
\* timelines.ts createTimeline: the INSERT (slug UNIQUE)
insertTimeline(d, input) ==
    [d EXCEPT !.timelines = Append(d.timelines,
                [id |-> newId(d.timelines),
                 slug |-> slugify(OrElse(input.slug, input.title_text)),
                 title |-> input.title])]

\* timelines.ts attachEventToTimeline: ON CONFLICT (timeline_id, event_id)
\* DO UPDATE SET sequence_no
upsertTimelineEvent(d, ofTimeline, eventId, sequenceNo) ==
    LET old == {i \in 1..Len(d.timeline_events) :
                    /\ d.timeline_events[i].timeline_id = ofTimeline
                    /\ d.timeline_events[i].event_id = eventId}
    IN IF old = {}
       THEN [d EXCEPT !.timeline_events = Append(d.timeline_events,
                [timeline_id |-> ofTimeline, event_id |-> eventId,
                 sequence_no |-> sequenceNo])]
       ELSE [d EXCEPT !.timeline_events[CHOOSE i \in old : TRUE].sequence_no = sequenceNo]

\* the SQLSTATE the INSERT into timeline_events fails with, if it fails:
\* a foreign key (23503) or UNIQUE (timeline_id, sequence_no) (23505)
timelineEventError(d, ofTimeline, eventId, sequenceNo) ==
    IF \/ \A k \in 1..Len(d.timelines) : d.timelines[k].id /= ofTimeline
       \/ eventIndexById(d, eventId) = {}
    THEN Some("23503")
    ELSE IF \E i \in 1..Len(d.timeline_events) :
              /\ d.timeline_events[i].timeline_id = ofTimeline
              /\ d.timeline_events[i].sequence_no = sequenceNo
              /\ d.timeline_events[i].event_id /= eventId
         THEN Some("23505")
         ELSE None

\* the error pg raises for a violated UNIQUE or FOREIGN KEY constraint
PgError(code) == [name |-> "error", code |-> code]

(***************************************************************************)
(* SpecLive: a process with DATABASE_URL set and the store reachable;      *)
(* editorial writes, imports and public reads on the live store            *)
(***************************************************************************)
MaxLiveEvents == 1
MaxClock == 1

CreateEventInputs == {
    [slug |-> None, title |-> TXT_Crash, event_date |-> 19291024, region |-> TXT_US,
     category |-> TXT_Banking, summary |-> TXT_Run, impact |-> TXT_AsiaHit,
     importance_score |-> 5]}

UpdateEventInputs == {
    [slug |-> None, title |-> None],
    [slug |-> Some(<<"a">>), title |-> None]}

ImportPayloads == {
    [sources |-> <<SeedSource(URL_1, Some(19710815))>>,
     events |-> <<SeedEvent(Some(<<"a">>), TXT_Peg, 19710815, TXT_Asia, TXT_FXPolicy,
                            TXT_Float, TXT_NoImpact, 3, Some("published"))>>,
     event_sources |-> <<SeedLink(<<"a">>, URL_1, Some(2))>>],
    [sources |-> <<>>,
     events |-> <<SeedEvent(Some(<<"a">>), TXT_Peg, 19710815, TXT_Asia, TXT_FXPolicy,
                            TXT_Float, TXT_NoImpact, 3, None)>>,
     event_sources |-> <<>>],
    [sources |-> <<>>,
     events |-> <<SeedEvent(None, TXT_Crash, 19291024, TXT_US, TXT_Banking,
                            TXT_Run, TXT_AsiaHit, 5, Some("review"))>>,
     event_sources |-> <<>>]}

TimelineInput ==
    [slug |-> None, title |-> "Crisis and Stabilization Cycle",
     title_text |-> <<"C","r","i","s","i","s">>]

\* a DATABASE_URL value
URL_Postgres == <<"p","g",":","/","/","d","b">>

EmptySeed == [sources |-> <<>>, events |-> <<>>, event_sources |-> <<>>]

\* ids a request may name: those of the rows and one no row has
MissingId == [uuid |-> 0]
EventIds == {db.events[i].id : i \in 1..Len(db.events)} \cup {MissingId}

InitLive ==
    /\ seedFile = EmptySeed
    /\ demoDatasetPromise = PromiseNull
    /\ db = EmptyDb
    /\ clock = 0
    /\ resp = NoResp
    /\ callers = <<>>
    /\ env = [DATABASE_URL |-> Some(URL_Postgres)]
    /\ builds = <<>>

\* time passes
Tick ==
    /\ clock < MaxClock
    /\ clock' = clock + 1
    /\ UNCHANGED <<seedFile, demoDatasetPromise, db, resp, callers, env, builds>>

LiveWrote(op, req, newDb, kind, result) ==
    /\ db' = newDb
    /\ resp' = [op |-> op, req |-> req, path |-> "live", kind |-> kind,
                result |-> result, at |-> clock]
    /\ UNCHANGED <<seedFile, demoDatasetPromise, clock, callers, env, builds>>

LiveRead(op, req, results) ==
    /\ \E result \in results :
          resp' = [op |-> op, req |-> req, path |-> "live", kind |-> "ok",
                   result |-> result]
    /\ UNCHANGED <<seedFile, demoDatasetPromise, db, clock, callers, env, builds>>

\* events.ts createEvent
LiveCreateEvent(input) ==
    /\ Len(db.events) < MaxLiveEvents
    /\ LET slug == getNextAvailableSlug(db, OrElse(input.slug, input.title))
           newDb == insertDraftEvent(db, input, slug)
       IN LiveWrote("createEvent", input, newDb, "ok", newDb.events[Len(newDb.events)])

\* events.ts updateEvent
LiveUpdateEvent(eventId, input) ==
    LET hits == eventIndexById(db, eventId)
        req == [id |-> eventId, input |-> input]
    IN IF input.slug = None /\ input.title = None
       THEN LiveWrote("updateEvent", req, db, "ok", None)
       ELSE IF hits = {}
       THEN LiveWrote("updateEvent", req, db, "ok", None)
       ELSE LET i == CHOOSE i \in hits : TRUE
                row == updateEventRow(db.events[i], input)
            IN IF \E j \in 1..Len(db.events) : j /= i /\ db.events[j].slug = row.slug
               THEN LiveWrote("updateEvent", req, db, "error", PgError("23505"))
               ELSE LiveWrote("updateEvent", req, [db EXCEPT !.events[i] = row],
                              "ok", Some(row))

\* events.ts publishEvent
LivePublishEvent(eventId) ==
    LET hits == eventIndexById(db, eventId)
    IN IF hits = {}
       THEN LiveWrote("publishEvent", eventId, db, "ok", None)
       ELSE LET i == CHOOSE i \in hits : TRUE
                row == publishEventRow(db.events[i], clock)
            IN LiveWrote("publishEvent", eventId, [db EXCEPT !.events[i] = row],
                         "ok", Some(row))

\* events.ts archiveEvent
LiveArchiveEvent(eventId) ==
    LET hits == eventIndexById(db, eventId)
    IN IF hits = {}
       THEN LiveWrote("archiveEvent", eventId, db, "ok", None)
       ELSE LET i == CHOOSE i \in hits : TRUE
                row == archiveEventRow(db.events[i])
            IN LiveWrote("archiveEvent", eventId, [db EXCEPT !.events[i] = row],
                         "ok", Some(row))

\* ingestion.ts runIngestionImport
LiveRunIngestionImport(payload) ==
    LET out == runIngestionImport(db, payload, clock)
    IN /\ Len(out.db.events) <= MaxLiveEvents
       /\ LiveWrote("runIngestionImport", payload, out.db, "ok", out.result)

\* timelines.ts createTimeline
LiveCreateTimeline ==
    IF \E k \in 1..Len(db.timelines) :
          db.timelines[k].slug = slugify(OrElse(TimelineInput.slug, TimelineInput.title_text))
    THEN LiveWrote("createTimeline", TimelineInput, db, "error", PgError("23505"))
    ELSE LET newDb == insertTimeline(db, TimelineInput)
         IN LiveWrote("createTimeline", TimelineInput, newDb, "ok",
                      newDb.timelines[Len(newDb.timelines)])

\* timelines.ts attachEventToTimeline
LiveAttachEventToTimeline(ofTimeline, eventId, sequenceNo) ==
    LET req == [timeline_id |-> ofTimeline, event_id |-> eventId,
                sequence_no |-> sequenceNo]
    IN IF timelineEventError(db, ofTimeline, eventId, sequenceNo) /= None
       THEN LiveWrote("attachEventToTimeline", req, db, "error",
                      PgError(Get(timelineEventError(db, ofTimeline, eventId, sequenceNo))))
       ELSE LiveWrote("attachEventToTimeline", req,
                      upsertTimelineEvent(db, ofTimeline, eventId, sequenceNo),
                      "ok", req)

\* requests of the public routes while the store is live
LiveListRequests == {
    NoFilters(1, 20, "date_desc"),
    NoFilters(2, 1, "importance_desc")}
LiveSlugRequests == {<<"a">>, <<"c","r","a","s","h">>}
LiveMonthDayRequests == {1024}
LiveTimelineSlugRequests == {<<"c","r","i","s","i","s">>}
SourceIds == {db.sources[i].id : i \in 1..Len(db.sources)} \cup {MissingId}
TimelineIds == {db.timelines[i].id : i \in 1..Len(db.timelines)} \cup {MissingId}
SequenceNos == {1}

\* events.ts listPublishedEvents with the store answering
LiveListPublishedEvents(filters) ==
    LiveRead("listPublishedEvents", filters, listPublishedEventsLive(db, filters))

\* events.ts getPublishedEventBySlug with the store answering
LiveGetPublishedEventBySlug(slug) ==
    LiveRead("getPublishedEventBySlug", slug, getPublishedEventBySlugLive(db, slug))

\* events.ts listPublishedEventsByMonthDay with the store answering
LiveListPublishedEventsByMonthDay(monthDay) ==
    LiveRead("listPublishedEventsByMonthDay", monthDay,
             listPublishedEventsByMonthDayLive(db, monthDay))

\* timelines.ts listTimelinesPublic with the store answering
LiveListTimelinesPublic ==
    LiveRead("listTimelinesPublic", None, listTimelinesPublicLive(db))

\* timelines.ts getTimelineBySlug with the store answering
LiveGetTimelineBySlug(slug) ==
    LiveRead("getTimelineBySlug", slug, getTimelineBySlugLive(db, slug))

\* sources.ts getSourceById with the store answering
LiveGetSourceById(sourceId) ==
    LiveRead("getSourceById", sourceId, getSourceByIdLive(db, sourceId))

NextLive ==
    \/ Tick
    \/ \E input \in CreateEventInputs : LiveCreateEvent(input)
    \/ \E eventId \in EventIds, input \in UpdateEventInputs :
          LiveUpdateEvent(eventId, input)
    \/ \E eventId \in EventIds : LivePublishEvent(eventId)
    \/ \E eventId \in EventIds : LiveArchiveEvent(eventId)
    \/ \E payload \in ImportPayloads : LiveRunIngestionImport(payload)
    \/ LiveCreateTimeline
    \/ \E ofTimeline \in TimelineIds, eventId \in EventIds, sequenceNo \in SequenceNos :
          LiveAttachEventToTimeline(ofTimeline, eventId, sequenceNo)
    \/ \E filters \in LiveListRequests : LiveListPublishedEvents(filters)
    \/ \E slug \in LiveSlugRequests : LiveGetPublishedEventBySlug(slug)
    \/ \E monthDay \in LiveMonthDayRequests : LiveListPublishedEventsByMonthDay(monthDay)
    \/ LiveListTimelinesPublic
    \/ \E slug \in LiveTimelineSlugRequests : LiveGetTimelineBySlug(slug)
    \/ \E sourceId \in SourceIds : LiveGetSourceById(sourceId)

SpecLive == InitLive /\ [][NextLive]_vars

\* the row of the live store with the given event id is published
livePublished(id) ==
    \E i \in 1..Len(db.events) : db.events[i].id = id /\ db.events[i].status = "published"

isLiveRead(op) == resp.op = op /\ resp.path = "live" /\ resp.kind = "ok"

\* C4: after any sequence of createEvent, updateEvent, publishEvent,
\* archiveEvent and imports, every event a public read returns (list, by
\* slug, month-day list, timeline detail and counts, a source's linked events)
\* is published in the store at the time of the read, and a slug whose event
\* is draft, review or archived reads as not found, like a slug no event has
C4_OnlyPublishedVisible ==
    /\ isLiveRead("listPublishedEvents") =>
          \A i \in 1..Len(resp.result.items) : livePublished(resp.result.items[i].id)
    /\ isLiveRead("getPublishedEventBySlug") =>
          /\ resp.result /= None => livePublished(Get(resp.result).id)
          /\ (\A i \in 1..Len(db.events) :
                 db.events[i].slug = resp.req => db.events[i].status /= "published")
                => resp.result = None
    /\ isLiveRead("listPublishedEventsByMonthDay") =>
          \A i \in 1..Len(resp.result) : livePublished(resp.result[i].id)
    /\ isLiveRead("listTimelinesPublic") =>
          \A k \in 1..Len(resp.result) :
              resp.result[k].event_count =
                  Cardinality({i \in 1..Len(db.timeline_events) :
                      /\ db.timeline_events[i].timeline_id = resp.result[k].id
                      /\ livePublished(db.timeline_events[i].event_id)})
    /\ isLiveRead("getTimelineBySlug") =>
          (resp.result /= None =>
              \A i \in 1..Len(Get(resp.result).events) :
                  livePublished(Get(resp.result).events[i].id))
    /\ isLiveRead("getSourceById") =>
          (resp.result /= None =>
              \A i \in 1..Len(Get(resp.result).linked_events) :
                  livePublished(Get(resp.result).linked_events[i].id))

\* a slug whose event was published and is archived now read as not found
C4_Witness ==
    /\ isLiveRead("getPublishedEventBySlug")
    /\ resp.result = None
    /\ \E i \in 1..Len(db.events) :
          /\ db.events[i].slug = resp.req
          /\ db.events[i].status = "archived"
          /\ db.events[i].published_at /= None

PAT_DatabaseUrlNotSet == <<
    "D","A","T","A","B","A","S","E","_","U","R","L"," ","i","s"," ","n","o","t"," ","s",
    "e","t">>
PAT_ECONNREFUSED == <<"E","C","O","N","N","R","E","F","U","S","E","D">>
PAT_ETIMEDOUT == <<"E","T","I","M","E","D","O","U","T">>
PAT_ENOTFOUND == <<"E","N","O","T","F","O","U","N","D">>
PAT_ConnectionTerminated == <<
    "c","o","n","n","e","c","t","i","o","n"," ","t","e","r","m","i","n","a","t","e",
    "d">>
PAT_CouldNotConnect == <<
    "c","o","u","l","d"," ","n","o","t"," ","c","o","n","n","e","c","t"," ","t","o"," ",
    "s","e","r","v","e","r">>
PAT_FailedToConnect == <<
    "f","a","i","l","e","d"," ","t","o"," ","c","o","n","n","e","c","t">>
PAT_ECONNRESET == <<"E","C","O","N","N","R","E","S","E","T">>
PAT_EHOSTUNREACH == <<"E","H","O","S","T","U","N","R","E","A","C","H">>

\* runtime.ts DB_UNAVAILABLE_PATTERNS
DB_UNAVAILABLE_PATTERNS == <<PAT_DatabaseUrlNotSet, PAT_ECONNREFUSED, PAT_ETIMEDOUT,
    PAT_ENOTFOUND, PAT_ConnectionTerminated, PAT_CouldNotConnect, PAT_FailedToConnect>>

\* the codes /^(ECONNREFUSED|ETIMEDOUT|ENOTFOUND|ECONNRESET|EHOSTUNREACH)$/i accepts
DB_UNAVAILABLE_CODES == {PAT_ECONNREFUSED, PAT_ETIMEDOUT, PAT_ENOTFOUND,
    PAT_ECONNRESET, PAT_EHOSTUNREACH}

\* whitespace String.prototype.trim removes
RECURSIVE trimStart(_)
trimStart(s) == IF s /= <<>> /\ Head(s) = " " THEN trimStart(Tail(s)) ELSE s

RECURSIVE trimEnd(_)
trimEnd(s) ==
    IF s /= <<>> /\ s[Len(s)] = " " THEN trimEnd(SubSeq(s, 1, Len(s) - 1)) ELSE s

trim(s) == trimEnd(trimStart(s))

\* runtime.ts hasDatabaseConfig
hasDatabaseConfig(environment) ==
    /\ TruthyStr(environment.DATABASE_URL)
    /\ Len(trim(Get(environment.DATABASE_URL))) > 0

\* the patterns and codes with their letters lower-cased, as the i flag compares
LowerPatterns == [k \in 1..Len(DB_UNAVAILABLE_PATTERNS) |->
                    toLowerCase(DB_UNAVAILABLE_PATTERNS[k])]
LowerCodes == {toLowerCase(c) : c \in DB_UNAVAILABLE_CODES}

\* runtime.ts isDatabaseUnavailableMessage: some /pattern/i tests true
isDatabaseUnavailableMessage(message) ==
    LET lower == toLowerCase(message)
    IN \E k \in 1..Len(LowerPatterns) : includes(lower, LowerPatterns[k])

STR_UnknownError == <<"U","n","k","n","o","w","n"," ","e","r","r","o","r">>

\* runtime.ts toErrorMessage; the routes compute the same expression inline
toErrorMessage(error) ==
    IF error.isError THEN error.message ELSE STR_UnknownError

\* runtime.ts isDbUnavailableCode
isDbUnavailableCode(code) == code /= None /\ toLowerCase(Get(code)) \in LowerCodes

\* runtime.ts isUnavailableErrorTree, on thrown objects without reference cycles
RECURSIVE isUnavailableErrorTree(_)
isUnavailableErrorTree(error) ==
    \/ error.isError /\ isDatabaseUnavailableMessage(error.message)
    \/ isDbUnavailableCode(error.code)
    \/ isDatabaseUnavailableMessage(error.message)
    \/ error.cause /= None /\ isUnavailableErrorTree(Get(error.cause))
    \/ \E i \in 1..Len(error.errors) : isUnavailableErrorTree(error.errors[i])

\* runtime.ts isDatabaseUnavailableError
isDatabaseUnavailableError(error) == isUnavailableErrorTree(error)

(***************************************************************************)
(* Failures the pg client and the driver raise                             *)
(***************************************************************************)
\* an Error instance with the given own properties
ErrorObject(message, code, cause, errors) ==
    [isError |-> TRUE, message |-> message, code |-> code,
     cause |-> cause, errors |-> errors]

MSG_ConnectRefused == <<
    "c","o","n","n","e","c","t"," ","E","C","O","N","N","R","E","F","U","S","E","D">>
MSG_ConnectTimedOut == <<
    "c","o","n","n","e","c","t"," ","E","T","I","M","E","D","O","U","T">>
MSG_Terminated == <<
    "C","o","n","n","e","c","t","i","o","n"," ","t","e","r","m","i","n","a","t","e","d",
    " ","u","n","e","x","p","e","c","t","e","d","l","y">>
MSG_ReadReset == <<"r","e","a","d"," ","E","C","O","N","N","R","E","S","E","T">>
MSG_QueryFailed == <<"q","u","e","r","y"," ","f","a","i","l","e","d">>
MSG_DuplicateKey == <<
    "d","u","p","l","i","c","a","t","e"," ","k","e","y"," ","v","a","l","u","e">>
MSG_InvalidSyntax == <<
    "i","n","v","a","l","i","d"," ","i","n","p","u","t"," ","s","y","n","t","a","x">>
MSG_ForeignKey == <<
    "v","i","o","l","a","t","e","s"," ","f","o","r","e","i","g","n"," ","k","e","y">>
CODE_23505 == <<"2","3","5","0","5">>
CODE_22007 == <<"2","2","0","0","7">>
CODE_23503 == <<"2","3","5","0","3">>

\* db.ts createPool without DATABASE_URL
ERR_NotSet == ErrorObject(PAT_DatabaseUrlNotSet, None, None, <<>>)
\* recognised by message and by code
ERR_Refused == ErrorObject(MSG_ConnectRefused, Some(PAT_ECONNREFUSED), None, <<>>)
\* recognised by message only
ERR_Terminated == ErrorObject(MSG_Terminated, None, None, <<>>)
\* recognised by code only
ERR_Reset == ErrorObject(MSG_ReadReset, Some(PAT_ECONNRESET), None, <<>>)
\* an AggregateError of a dual-stack connect: empty message, code, sub-errors
ERR_Aggregate == ErrorObject(<<>>, Some(PAT_ECONNREFUSED), None, <<ERR_Refused>>)
\* sub-errors alone carry the condition
ERR_Nested == ErrorObject(MSG_QueryFailed, None, None, <<ERR_Terminated>>)
\* a wrapper whose cause is a timeout
ERR_Wrapped ==
    ErrorObject(MSG_QueryFailed, None,
                Some(ErrorObject(MSG_ConnectTimedOut, Some(PAT_ETIMEDOUT), None, <<>>)),
                <<>>)
\* data errors: unique violation, bad input, a wrapped foreign key violation
ERR_Unique == ErrorObject(MSG_DuplicateKey, Some(CODE_23505), None, <<>>)
ERR_Syntax == ErrorObject(MSG_InvalidSyntax, Some(CODE_22007), None, <<>>)
ERR_WrappedData ==
    ErrorObject(MSG_QueryFailed, None,
                Some(ErrorObject(MSG_ForeignKey, Some(CODE_23503), None, <<>>)), <<>>)

\* what a statement sent to the store can fail with
StoreFaults == {ERR_Refused, ERR_Terminated, ERR_Reset, ERR_Aggregate, ERR_Nested,
                ERR_Wrapped, ERR_Unique, ERR_Syntax, ERR_WrappedData}

(***************************************************************************)
(* api.ts responses and the catch blocks of the write routes               *)
(***************************************************************************)
Response(status, code) == [status |-> status, code |-> code]

\* api.ts serverError
serverError(message) ==
    IF isDatabaseUnavailableMessage(message)
    THEN Response(503, "SERVICE_UNAVAILABLE")
    ELSE Response(500, "INTERNAL_ERROR")

\* a catch block that does not look at the error code
createEventRouteCatch_messageOnly(error) == serverError(toErrorMessage(error))

\* admin/events/route.ts POST: the catch block
createEventRouteCatch(error) ==
    IF error.code = Some(CODE_23505)
    THEN Response(409, "CONFLICT")
    ELSE serverError(toErrorMessage(error))

\* admin/events/[id]/publish/route.ts POST and the ingestion import route:
\* the catch block
writeRouteCatch(error) == serverError(toErrorMessage(error))

\* db.ts getDbPool / createPool: the error it throws, if it throws
getDbPoolError(environment) ==
    IF TruthyStr(environment.DATABASE_URL) THEN None ELSE Some(ERR_NotSet)

\* the failure a write meets: none, the missing configuration, or what the
\* store answered the attempt with
writeFailure(environment, attempt) ==
    IF getDbPoolError(environment) /= None THEN getDbPoolError(environment) ELSE attempt

\* demo-store.ts getDemoDataset run to completion by a single request
datasetNow ==
    IF demoDatasetPromise.state = "null"
    THEN buildDatasetFrom(seedFile)
    ELSE Get(demoDatasetPromise.value)

(***************************************************************************)
(* The dual-path shape shared by the six read accessors                    *)
(***************************************************************************)
\* a catch block that rethrows whatever the live attempt failed with
dualPath_noFallback(environment, attempt, liveResult, demoResult) ==
    IF ~hasDatabaseConfig(environment)
    THEN [path |-> "demo", contacted |-> FALSE, kind |-> "ok", result |-> demoResult]
    ELSE IF attempt = None
    THEN [path |-> "live", contacted |-> TRUE, kind |-> "ok", result |-> liveResult]
    ELSE [path |-> "live", contacted |-> TRUE, kind |-> "throw", result |-> Get(attempt)]

\* a catch block that falls back whatever the live attempt failed with
dualPath_alwaysFallback(environment, attempt, liveResult, demoResult) ==
    IF ~hasDatabaseConfig(environment)
    THEN [path |-> "demo", contacted |-> FALSE, kind |-> "ok", result |-> demoResult]
    ELSE IF attempt = None
    THEN [path |-> "live", contacted |-> TRUE, kind |-> "ok", result |-> liveResult]
    ELSE [path |-> "fallback", contacted |-> TRUE, kind |-> "ok", result |-> demoResult]

\* events.ts listPublishedEvents and its five siblings: no configuration, the
\* try block, and the catch block
dualPath(environment, attempt, liveResult, demoResult) ==
    IF ~hasDatabaseConfig(environment)
    THEN [path |-> "demo", contacted |-> FALSE, kind |-> "ok", result |-> demoResult]
    ELSE IF attempt = None
    THEN [path |-> "live", contacted |-> TRUE, kind |-> "ok", result |-> liveResult]
    ELSE IF isDatabaseUnavailableError(Get(attempt))
    THEN [path |-> "fallback", contacted |-> TRUE, kind |-> "ok", result |-> demoResult]
    ELSE [path |-> "live", contacted |-> TRUE, kind |-> "throw", result |-> Get(attempt)]

(***************************************************************************)
(* SpecAccess: reads through the accessors and writes through the admin    *)
(* and internal routes, with any configuration and a store that may fail   *)
(***************************************************************************)
Attempts == {None} \cup {Some(e) : e \in StoreFaults}

Environments == {[DATABASE_URL |-> None],
                 [DATABASE_URL |-> Some(<<" ">>)],
                 [DATABASE_URL |-> Some(URL_Postgres)]}

\* the seed file of the process: published and hidden events, a source, links
AccessSeed ==
    [sources |-> <<SeedSource(URL_1, Some(19710815))>>,
     events |-> <<SeedEvent(Some(<<"a">>), TXT_Crash, 19291024, TXT_US, TXT_Banking,
                            TXT_Run, TXT_AsiaHit, 5, Some("published")),
                  SeedEvent(Some(<<"b">>), TXT_Peg, 19710815, TXT_Asia, TXT_FXPolicy,
                            TXT_Float, TXT_NoImpact, 3, Some("archived"))>>,
     event_sources |-> <<SeedLink(<<"a">>, URL_1, Some(2)),
                         SeedLink(<<"b">>, URL_1, None)>>]

InitAccess ==
    /\ seedFile = AccessSeed
    /\ demoDatasetPromise = PromiseNull
    /\ db = EmptyDb
    /\ clock = 0
    /\ resp = NoResp
    /\ callers = <<>>
    /\ env \in Environments
    /\ builds = <<>>

\* one accessor call: the live attempt answers one of liveResults or fails
\* with attempt; demoResult is what the accessor's in-memory branch computes
Accessor(op, req, attempt, liveResults, demoResult) ==
    /\ \E liveResult \in liveResults :
         LET out == dualPath(env, attempt, liveResult, demoResult)
         IN /\ resp' = [op |-> op, req |-> req, attempt |-> attempt,
                        path |-> out.path, contacted |-> out.contacted,
                        kind |-> out.kind, result |-> out.result]
            /\ demoDatasetPromise' = IF out.path \in {"demo", "fallback"}
                                     THEN PromiseFulfilled(datasetNow)
                                     ELSE demoDatasetPromise
    /\ UNCHANGED <<seedFile, db, clock, callers, env, builds>>

\* events.ts listPublishedEvents
ListPublishedEvents(filters, attempt) ==
    Accessor("listPublishedEvents", filters, attempt,
             listPublishedEventsLive(db, filters),
             listPublishedEventsFromDemo(datasetNow, filters))

\* events.ts getPublishedEventBySlug
GetPublishedEventBySlug(slug, attempt) ==
    Accessor("getPublishedEventBySlug", slug, attempt,
             getPublishedEventBySlugLive(db, slug),
             getPublishedEventBySlugFromDemo(datasetNow, slug))

\* events.ts listPublishedEventsByMonthDay
ListPublishedEventsByMonthDay(monthDay, attempt) ==
    Accessor("listPublishedEventsByMonthDay", monthDay, attempt,
             listPublishedEventsByMonthDayLive(db, monthDay),
             listPublishedEventsByMonthDayFromDemo(datasetNow, monthDay))

\* timelines.ts listTimelinesPublic
ListTimelinesPublic(attempt) ==
    Accessor("listTimelinesPublic", None, attempt,
             listTimelinesPublicLive(db),
             listTimelinesPublicFromDemo(datasetNow))

\* timelines.ts getTimelineBySlug
GetTimelineBySlug(slug, attempt) ==
    Accessor("getTimelineBySlug", slug, attempt,
             getTimelineBySlugLive(db, slug),
             getTimelineBySlugFromDemo(datasetNow, slug))

\* sources.ts getSourceById
GetSourceById(sourceId, attempt) ==
    Accessor("getSourceById", sourceId, attempt,
             getSourceByIdLive(db, sourceId),
             getSourceByIdFromDemo(datasetNow, sourceId))

(***************************************************************************)
(* SpecBuild: one process without DATABASE_URL serving reads from the      *)
(* snapshot it builds from the seed file                                   *)
(***************************************************************************)
InitBuild ==
    /\ seedFile \in SeedPayloads
    /\ demoDatasetPromise = PromiseNull
    /\ db = EmptyDb
    /\ clock = 0
    /\ resp = NoResp
    /\ callers = <<>>
    /\ env = [DATABASE_URL |-> None]
    /\ builds = <<>>

NextBuild ==
    \/ \E filters \in ListRequests : ListPublishedEvents(filters, None)
    \/ \E slug \in SlugRequests : GetPublishedEventBySlug(slug, None)
    \/ \E monthDay \in MonthDayRequests : ListPublishedEventsByMonthDay(monthDay, None)

SpecBuild == InitBuild /\ [][NextBuild]_vars

AccessListRequests == {NoFilters(1, 20, "date_desc")}
AccessSlugRequests == {<<"a">>, <<"b">>}
AccessMonthDayRequests == {1024}
AccessTimelineSlugRequests == {TimelineSlugs[2]}
AccessSourceIdRequests == {stableUuid(STR_sourceColon \o URL_1), [uuid |-> 1]}

\* the payload the import route is sent: a published event, its source, a link
AccessImportPayloads ==
    {[sources |-> <<SeedSource(URL_1, Some(19710815))>>,
      events |-> <<SeedEvent(Some(<<"a">>), TXT_Peg, 19710815, TXT_Asia, TXT_FXPolicy,
                             TXT_Float, TXT_NoImpact, 3, Some("published"))>>,
      event_sources |-> <<SeedLink(<<"a">>, URL_1, Some(2))>>]}

\* where a failing store fails the import: at pool.connect(), at a statement
\* inside the transaction, or at a statement and again at the ROLLBACK
ImportFaultStages == {"connect", "statement", "rollback"}

RouteAnswered(op, req, failure, response, newDb) ==
    /\ db' = newDb
    /\ resp' = [op |-> op, req |-> req, path |-> "route", failure |-> failure,
                status |-> response.status, code |-> response.code]
    /\ UNCHANGED <<seedFile, demoDatasetPromise, clock, callers, env, builds>>

\* admin/events/route.ts POST, authorised and valid
PostAdminEvents(input, attempt) ==
    LET failure == writeFailure(env, attempt)
        slug == getNextAvailableSlug(db, OrElse(input.slug, input.title))
    IN IF failure /= None
       THEN RouteAnswered("POST /admin/events", input, failure,
                          createEventRouteCatch(Get(failure)), db)
       ELSE /\ Len(db.events) < MaxLiveEvents
            /\ RouteAnswered("POST /admin/events", input, None,
                             Response(201, "created"), insertDraftEvent(db, input, slug))

\* admin/events/[id]/publish/route.ts POST, authorised and valid
PostAdminEventPublish(eventId, attempt) ==
    LET failure == writeFailure(env, attempt)
        hits == eventIndexById(db, eventId)
    IN IF failure /= None
       THEN RouteAnswered("POST /admin/events/:id/publish", eventId, failure,
                          writeRouteCatch(Get(failure)), db)
       ELSE IF hits = {}
       THEN RouteAnswered("POST /admin/events/:id/publish", eventId, None,
                          Response(404, "NOT_FOUND"), db)
       ELSE RouteAnswered("POST /admin/events/:id/publish", eventId, None,
                          Response(200, "ok"),
                          [db EXCEPT !.events[CHOOSE i \in hits : TRUE] =
                                        publishEventRow(@, clock)])

\* the ingestion import route POST, authorised and valid: a failure of
\* getDbPool, of pool.connect or of the ROLLBACK reaches the route's catch
\* block, a failure of a statement that is rolled back is reported in the
\* 200 answer's errors
PostIngestionImport(payload, attempt, stage) ==
    LET failure == writeFailure(env, attempt)
        out == runIngestionImport(db, payload, clock)
    IN IF failure /= None
       THEN IF getDbPoolError(env) /= None \/ stage \in {"connect", "rollback"}
            THEN RouteAnswered("POST /ingestion/import", payload, failure,
                               writeRouteCatch(Get(failure)), db)
            ELSE RouteAnswered("POST /ingestion/import", payload, failure,
                               Response(200, "ok"), db)
       ELSE /\ Len(out.db.events) <= MaxLiveEvents
            /\ stage = "connect"
            /\ RouteAnswered("POST /ingestion/import", payload, None,
                             Response(200, "ok"), out.db)

NextAccess ==
    \/ \E filters \in AccessListRequests, attempt \in Attempts :
          ListPublishedEvents(filters, attempt)
    \/ \E slug \in AccessSlugRequests, attempt \in Attempts :
          GetPublishedEventBySlug(slug, attempt)
    \/ \E monthDay \in AccessMonthDayRequests, attempt \in Attempts :
          ListPublishedEventsByMonthDay(monthDay, attempt)
    \/ \E attempt \in Attempts : ListTimelinesPublic(attempt)
    \/ \E slug \in AccessTimelineSlugRequests, attempt \in Attempts :
          GetTimelineBySlug(slug, attempt)
    \/ \E sourceId \in AccessSourceIdRequests, attempt \in Attempts :
          GetSourceById(sourceId, attempt)
    \/ \E input \in CreateEventInputs, attempt \in Attempts :
          PostAdminEvents(input, attempt)
    \/ \E eventId \in EventIds, attempt \in Attempts :
          PostAdminEventPublish(eventId, attempt)
    \/ \E payload \in AccessImportPayloads, attempt \in Attempts,
          stage \in ImportFaultStages :
          PostIngestionImport(payload, attempt, stage)

SpecAccess == InitAccess /\ [][NextAccess]_vars

isAccessorAnswer == resp.op /= "none" /\ resp.path \in {"demo", "live", "fallback"}
isRouteAnswer == resp.op /= "none" /\ resp.path = "route"

\* the in-memory computation of an accessor over a dataset
inMemory(op, req, dataset) ==
    CASE op = "listPublishedEvents" -> listPublishedEventsFromDemo(dataset, req)
      [] op = "getPublishedEventBySlug" -> getPublishedEventBySlugFromDemo(dataset, req)
      [] op = "listPublishedEventsByMonthDay" ->
            listPublishedEventsByMonthDayFromDemo(dataset, req)
      [] op = "listTimelinesPublic" -> listTimelinesPublicFromDemo(dataset)
      [] op = "getTimelineBySlug" -> getTimelineBySlugFromDemo(dataset, req)
      [] op = "getSourceById" -> getSourceByIdFromDemo(dataset, req)

\* C1: a read accessor called without store configuration does not contact
\* the store and returns the in-memory result; called with configuration and
\* a live failure the classifier marks as unavailability, it returns the
\* in-memory computation over the snapshot instead of an error
C1_ReadsFallBack ==
    isAccessorAnswer =>
        /\ ~hasDatabaseConfig(env) =>
              /\ ~resp.contacted
              /\ resp.kind = "ok"
              /\ snapshotBuilt
              /\ resp.result = inMemory(resp.op, resp.req, snapshot)
        /\ (/\ hasDatabaseConfig(env)
            /\ resp.attempt /= None
            /\ isDatabaseUnavailableError(Get(resp.attempt))) =>
              /\ resp.kind = "ok"
              /\ snapshotBuilt
              /\ resp.result = inMemory(resp.op, resp.req, snapshot)

\* a configured listing answered from the snapshot after a failure that only
\* its code field marks as unavailability
C1_Witness ==
    /\ isAccessorAnswer
    /\ hasDatabaseConfig(env)
    /\ resp.op = "listPublishedEvents"
    /\ resp.attempt = Some(ERR_Reset)
    /\ resp.path = "fallback"
    /\ Len(resp.result.items) = 1

\* C2: a write attempted while the store is unconfigured or fails with any
\* failure the read classifier marks as unavailability is answered by the
\* route with 503 SERVICE_UNAVAILABLE
C2_WritesAnswerUnavailable ==
    (/\ isRouteAnswer
     /\ resp.failure /= None
     /\ isDatabaseUnavailableError(Get(resp.failure))) =>
        (resp.status = 503 /\ resp.code = "SERVICE_UNAVAILABLE")

\* C3: a live read failure the classifier does not mark as unavailability is
\* rethrown as it is, and the call returns no snapshot data
C3_OtherFailuresRethrown ==
    (/\ isAccessorAnswer
     /\ hasDatabaseConfig(env)
     /\ resp.attempt /= None
     /\ ~isDatabaseUnavailableError(Get(resp.attempt))) =>
        (resp.kind = "throw" /\ resp.result = Get(resp.attempt) /\ resp.path = "live")

\* a detail read that met a wrapped foreign key violation and rethrew it,
\* with a snapshot at hand that holds the event asked for
C3_Witness ==
    /\ isAccessorAnswer
    /\ resp.op = "getPublishedEventBySlug"
    /\ resp.attempt = Some(ERR_WrappedData)
    /\ resp.kind = "throw"
    /\ snapshotBuilt
    /\ getPublishedEventBySlugFromDemo(snapshot, resp.req) /= None

(***************************************************************************)
(* import-seed.mjs: the merge of an import file into the main seed file    *)
(***************************************************************************)
\* import-seed.mjs mergeByKey: a Map keeps the position of a key's first
\* entry and the value of its last
mergeByKey(baseItems, incomingItems, keyOf(_)) ==
    LET all == baseItems \o incomingItems
        firsts == SelectSeq([i \in 1..Len(all) |-> i], LAMBDA i :
                        \A j \in 1..(i - 1) : keyOf(all[j]) /= keyOf(all[i]))
        lastOf(i) == CHOOSE j \in 1..Len(all) :
                        /\ keyOf(all[j]) = keyOf(all[i])
                        /\ \A k \in (j + 1)..Len(all) : keyOf(all[k]) /= keyOf(all[i])
    IN [k \in 1..Len(firsts) |-> all[lastOf(firsts[k])]]

STR_bars == <<"|","|">>

\* a merge that appends the incoming records
applyDemoFallback_concat(mainPayload, payload) ==
    [sources |-> mainPayload.sources \o payload.sources,
     events |-> mainPayload.events \o payload.events,
     event_sources |-> mainPayload.event_sources \o payload.event_sources]

\* a merge that keys the events as the snapshot builder names them
applyDemoFallback_builderKey(mainPayload, payload) ==
    [sources |-> mergeByKey(mainPayload.sources, payload.sources,
                            LAMBDA item : trim(item.source_url)),
     events |-> mergeByKey(mainPayload.events, payload.events,
                           LAMBDA item : normalizeSlug(OrElse(item.slug, item.title))),
     event_sources |-> mergeByKey(mainPayload.event_sources, payload.event_sources,
                           LAMBDA item : trim(item.event_slug) \o STR_bars
                                         \o trim(item.source_url))]

\* import-seed.mjs applyDemoFallback for a file other than the main seed:
\* the content written back to the main seed file
applyDemoFallback(mainPayload, payload) ==
    [sources |-> mergeByKey(mainPayload.sources, payload.sources,
                            LAMBDA item : trim(item.source_url)),
     events |-> mergeByKey(mainPayload.events, payload.events,
                           LAMBDA item : trim(OrElse(item.slug, <<>>))),
     event_sources |-> mergeByKey(mainPayload.event_sources, payload.event_sources,
                           LAMBDA item : trim(item.event_slug) \o STR_bars
                                         \o trim(item.source_url))]

(***************************************************************************)
(* SpecMemo: callers of getDemoDataset in one process, the build in        *)
(* flight, and import-seed.mjs rewriting the seed file meanwhile           *)
(***************************************************************************)
NumCallers == 3
Callers == 1..NumCallers

PromisePending == [state |-> "pending", value |-> None]

\* the import files merged into the seed while the process runs
MemoImports == {
    [sources |-> <<>>,
     events |-> <<SeedEvent(Some(<<"b">>), TXT_Peg, 19710815, TXT_Asia, TXT_FXPolicy,
                            TXT_Float, TXT_NoImpact, 3, Some("published"))>>,
     event_sources |-> <<SeedLink(<<"b">>, URL_1, Some(1))>>],
    [sources |-> <<SeedSource(URL_2, None)>>,
     events |-> <<SeedEvent(Some(<<"a">>), TXT_Peg, 20080915, TXT_US, TXT_Banking,
                            TXT_Float, TXT_NoImpact, 4, Some("draft"))>>,
     event_sources |-> <<>>]}

IdleCaller == [pc |-> "idle", calledWhen |-> "never", seedAtCall |-> None, got |-> None]

InitMemo ==
    /\ seedFile = AccessSeed
    /\ demoDatasetPromise = PromiseNull
    /\ db = EmptyDb
    /\ clock = 0
    /\ resp = NoResp
    /\ callers = [c \in Callers |-> IdleCaller]
    /\ env = [DATABASE_URL |-> None]
    /\ builds = <<>>

\* a test that takes a promise as memoized only once it has settled
isMemoized_settledOnly(promise) == promise.state = "fulfilled"

\* a test that lets a rejected promise be replaced by a new build
isMemoized_unlessRejected(promise) == promise.state \notin {"null", "rejected"}

\* demo-store.ts getDemoDataset: the test !demoDatasetPromise, negated
isMemoized(promise) == promise.state /= "null"

\* demo-store.ts getDemoDataset, up to the caller's await: the test, and on a
\* miss the call of buildDataset, which runs to its await of loadSeedPayload
GetDemoDataset(c) ==
    /\ callers[c].pc = "idle"
    /\ callers' = [callers EXCEPT ![c] =
                      [pc |-> "awaiting", calledWhen |-> demoDatasetPromise.state,
                       seedAtCall |-> Some(seedFile), got |-> None]]
    /\ IF isMemoized(demoDatasetPromise)
       THEN UNCHANGED <<demoDatasetPromise, builds>>
       ELSE /\ demoDatasetPromise' = PromisePending
            /\ builds' = Append(builds, None)
    /\ UNCHANGED <<seedFile, db, clock, resp, env>>

\* demo-store.ts buildDataset from the completion of loadSeedPayload to its
\* return: the file is read as it is now and the promise is fulfilled
BuildDatasetCompletes ==
    /\ demoDatasetPromise.state = "pending"
    /\ demoDatasetPromise' = PromiseFulfilled(buildDatasetFrom(seedFile))
    /\ builds' = [builds EXCEPT ![Len(builds)] = Some(seedFile)]
    /\ UNCHANGED <<seedFile, db, clock, resp, callers, env>>

\* a caller's await of the promise resumes with the dataset
CallerResumes(c) ==
    /\ callers[c].pc = "awaiting"
    /\ demoDatasetPromise.state = "fulfilled"
    /\ callers' = [callers EXCEPT ![c].pc = "done",
                                  ![c].got = demoDatasetPromise.value]
    /\ UNCHANGED <<seedFile, demoDatasetPromise, db, clock, resp, env, builds>>

\* import-seed.mjs applyDemoFallback writing the merged main seed file
SeedRewritten(payload) ==
    /\ applyDemoFallback(seedFile, payload) /= seedFile
    /\ seedFile' = applyDemoFallback(seedFile, payload)
    /\ UNCHANGED <<demoDatasetPromise, db, clock, resp, callers, env, builds>>

NextMemo ==
    \/ \E c \in Callers : GetDemoDataset(c)
    \/ BuildDatasetCompletes
    \/ \E c \in Callers : CallerResumes(c)
    \/ \E payload \in MemoImports : SeedRewritten(payload)

SpecMemo == InitMemo /\ [][NextMemo]_vars

\* C5: buildDataset is called at most once in the life of the process, and
\* all callers of getDemoDataset that have their answer hold the same
\* dataset, the one the promise holds, whenever they called
C5_BuiltOnce ==
    /\ Len(builds) <= 1
    /\ \A c \in DOMAIN callers :
          callers[c].pc = "done" =>
              /\ callers[c].got = demoDatasetPromise.value
              /\ \A d \in DOMAIN callers :
                    callers[d].pc = "done" => callers[d].got = callers[c].got

\* one caller called while the build was in flight, another after the seed
\* file had been rewritten; both hold the dataset built from the old file
C5_Witness ==
    /\ Len(builds) = 1
    /\ \E c, d \in DOMAIN callers :
          /\ callers[c].pc = "done" /\ callers[c].calledWhen = "pending"
          /\ callers[d].pc = "done" /\ callers[d].calledWhen = "fulfilled"
          /\ callers[d].seedAtCall /= builds[1]
          /\ callers[c].got = callers[d].got
          /\ Get(callers[d].got) /= buildDatasetFrom(Get(callers[d].seedAtCall))

(***************************************************************************)
(* SpecEquiv: one seed payload in the seed file and, through the import,   *)
(* in the live store; a list request answered on both paths                *)
(***************************************************************************)
InitEquiv ==
    /\ seedFile \in SeedPayloads
    /\ demoDatasetPromise = PromiseNull
    /\ db = EmptyDb
    /\ clock = 0
    /\ resp = NoResp
    /\ callers = <<>>
    /\ env = [DATABASE_URL |-> Some(URL_Postgres)]
    /\ builds = <<>>

\* import-seed.mjs main posting the seed file to the import route:
\* runIngestionImport of the file's payload into the empty store
ImportSeedFile ==
    LET out == runIngestionImport(db, seedFile, clock)
    IN /\ resp.op = "none"
       /\ out.result.committed
       /\ db' = out.db
       /\ resp' = [op |-> "runIngestionImport", result |-> out.result]
       /\ UNCHANGED <<seedFile, demoDatasetPromise, clock, callers, env, builds>>

\* events.ts listPublishedEvents on the loaded store: the results of the live
\* branch, and the result of listPublishedEventsFromDemo on the same seed
ListOnBothPaths(filters) ==
    /\ resp.op /= "none"
    /\ demoDatasetPromise' =
          IF isMemoized(demoDatasetPromise) THEN demoDatasetPromise
          ELSE PromiseFulfilled(buildDatasetFrom(seedFile))
    /\ resp' = [op |-> "listPublishedEvents", req |-> filters,
                live |-> listPublishedEventsLive(db, filters),
                demo |-> listPublishedEventsFromDemo(
                            Get(demoDatasetPromise'.value), filters)]
    /\ UNCHANGED <<seedFile, db, clock, callers, env, builds>>

NextEquiv ==
    \/ ImportSeedFile
    \/ \E filters \in ListRequests : ListOnBothPaths(filters)

SpecEquiv == InitEquiv /\ [][NextEquiv]_vars

\* what a listing shows of its events, ids left aside
listingSlugs(result) == [i \in 1..Len(result.items) |-> result.items[i].slug]

\* C10: for a seed loaded into the live store and any list request, every
\* result of the live path has the same events in the same order and the
\* same total as the result of the in-memory path
C10_PathsAgree ==
    resp.op = "listPublishedEvents" =>
        \A live \in resp.live :
            /\ listingSlugs(live) = listingSlugs(resp.demo)
            /\ live.pagination.total = resp.demo.pagination.total

(***************************************************************************)
(* SpecImport: runIngestionImport statement by statement. callers holds    *)
(* the frame of the one call in flight: its position, the transaction's    *)
(* view of the store, the result object and the error caught.              *)
(***************************************************************************)
MSG_DateOutOfRange == <<
    "d","a","t","e","/","t","i","m","e"," ","f","i","e","l","d"," ","v","a","l","u","e",
    " ","o","u","t"," ","o","f"," ","r","a","n","g","e">>
CODE_22008 == <<"2","2","0","0","8">>
\* what the store answers to $3::date for a day the calendar does not have
ERR_DateRange == ErrorObject(MSG_DateOutOfRange, Some(CODE_22008), None, <<>>)

\* the statements of one call in the order the code issues them
importStatements(payload) ==
    <<[kind |-> "BEGIN"]>>
    \o [i \in 1..Len(payload.sources) |-> [kind |-> "source", item |-> payload.sources[i]]]
    \o [i \in 1..Len(payload.events) |-> [kind |-> "event", item |-> payload.events[i]]]
    \o [i \in 1..Len(payload.event_sources) |->
            [kind |-> "link", item |-> payload.event_sources[i]]]
    \o <<[kind |-> "COMMIT"]>>

\* $3::date: Postgres rejects a YYYY-MM-DD string that names no calendar day
isCalendarDate(date) ==
    LET year == date \div 10000
        month == (date \div 100) % 100
        day == date % 100
        leap == (year % 4 = 0 /\ year % 100 /= 0) \/ year % 400 = 0
        daysIn == CASE month \in {4, 6, 9, 11} -> 30
                    [] month = 2 -> IF leap THEN 29 ELSE 28
                    [] OTHER -> 31
    IN month \in 1..12 /\ day \in 1..daysIn

\* the statement is one the store rejects with the connection intact
statementRejected(stmt) ==
    CASE stmt.kind = "event" ->
            \/ ~isCalendarDate(stmt.item.event_date)
            \/ stmt.item.importance_score \notin 1..5
            \/ OrElse(stmt.item.status, "draft")
                  \notin {"draft", "review", "published", "archived"}
      [] stmt.kind = "link" -> OrElse(stmt.item.relevance_rank, 1) \notin 1..10
      [] OTHER -> FALSE

EmptyResult ==
    [sources_upserted |-> 0, events_upserted |-> 0,
     event_source_links_upserted |-> 0, errors |-> <<>>]

MSG_LinkSkipped == <<"e","v","e","n","t","_","s","o","u","r","c","e","s"," ",
                     "l","i","n","k"," ","s","k","i","p","p","e","d">>

\* the link loop without its continue: a link that does not resolve is
\* reported and counted
statementEffect_countSkipped(work, result, stmt, now) ==
    CASE stmt.kind = "source" ->
            [work |-> upsertSource(work, stmt.item),
             result |-> [result EXCEPT !.sources_upserted = @ + 1]]
      [] stmt.kind = "event" ->
            [work |-> upsertEvent(work, stmt.item, now),
             result |-> [result EXCEPT !.events_upserted = @ + 1]]
      [] stmt.kind = "link" ->
            LET one == upsertLink(work, stmt.item)
            IN [work |-> one.db,
                result |-> IF one.upserted
                           THEN [result EXCEPT !.event_source_links_upserted = @ + 1]
                           ELSE [result EXCEPT !.errors = Append(@, MSG_LinkSkipped),
                                               !.event_source_links_upserted = @ + 1]]
      [] OTHER -> [work |-> work, result |-> result]

\* the body of the try block for one statement that the store executes:
\* the transaction's view afterwards and the result object afterwards
statementEffect(work, result, stmt, now) ==
    CASE stmt.kind = "source" ->
            [work |-> upsertSource(work, stmt.item),
             result |-> [result EXCEPT !.sources_upserted = @ + 1]]
      [] stmt.kind = "event" ->
            [work |-> upsertEvent(work, stmt.item, now),
             result |-> [result EXCEPT !.events_upserted = @ + 1]]
      [] stmt.kind = "link" ->
            LET one == upsertLink(work, stmt.item)
            IN [work |-> one.db,
                result |-> IF one.upserted
                           THEN [result EXCEPT !.event_source_links_upserted = @ + 1]
                           ELSE [result EXCEPT !.errors = Append(@, MSG_LinkSkipped)]]
      [] OTHER -> [work |-> work, result |-> result]

IdleFrame == [pc |-> "idle", previous |-> None]

\* payloads of the import: the ones of the live store, one whose event names
\* no calendar day after a source that upserts, one whose second event names
\* no calendar day after a source and an event that upsert, one whose link
\* is skipped,
\* one whose two dangling links precede a link that resolves, one that
\* cites an existing link anew
TxPayloads ==
    ImportPayloads \cup {
    [sources |-> <<SeedSource(URL_1, None)>>,
     events |-> <<SeedEvent(Some(<<"a">>), TXT_Peg, 19710815, TXT_Asia, TXT_FXPolicy,
                            TXT_Float, TXT_NoImpact, 3, Some("published")),
                  SeedEvent(Some(<<"b">>), TXT_Crash, 19290631, TXT_US, TXT_Banking,
                            TXT_Run, TXT_NoImpact, 2, Some("published"))>>,
     event_sources |-> <<SeedLink(<<"a">>, URL_1, Some(1))>>],
    [sources |-> <<SeedSource(URL_2, None)>>,
     events |-> <<SeedEvent(Some(<<"b">>), TXT_Crash, 19710230, TXT_US, TXT_Banking,
                            TXT_Run, TXT_NoImpact, 2, Some("published"))>>,
     event_sources |-> <<>>],
    [sources |-> <<SeedSource(URL_1, None)>>,
     events |-> <<>>,
     event_sources |-> <<SeedLink(<<"z","z">>, URL_1, Some(1))>>],
    [sources |-> <<SeedSource(URL_1, None)>>,
     events |-> <<SeedEvent(Some(<<"a">>), TXT_Peg, 19710815, TXT_Asia, TXT_FXPolicy,
                            TXT_Float, TXT_NoImpact, 3, Some("published"))>>,
     event_sources |-> <<SeedLink(<<"z","z">>, URL_1, Some(1)),
                         SeedLink(<<"a">>, URL_9, Some(1)),
                         SeedLink(<<"a">>, URL_1, Some(3))>>],
    [sources |-> <<>>,
     events |-> <<>>,
     event_sources |-> <<[SeedLink(<<"a">>, URL_1, Some(5)) EXCEPT
                            !.quote_excerpt = Some(TXT_Float),
                            !.citation_note = Some(TXT_Run)]>>]}

InitImport ==
    /\ seedFile = EmptySeed
    /\ demoDatasetPromise = PromiseNull
    /\ db = EmptyDb
    /\ clock = 0
    /\ resp = NoResp
    /\ callers = IdleFrame
    /\ env = [DATABASE_URL |-> Some(URL_Postgres)]
    /\ builds = <<>>

\* ingestion.ts runIngestionImport up to the try block: getDbPool and
\* pool.connect have answered and the result object is fresh
RunIngestionImport(payload) ==
    /\ callers.pc \in {"idle", "returned", "thrown"}
    /\ callers' = [pc |-> "try", payload |-> payload, before |-> db, work |-> db,
                   next |-> 1, result |-> EmptyResult, connected |-> TRUE,
                   error |-> None, previous |-> callers.previous]
    /\ resp' = NoResp
    /\ UNCHANGED <<seedFile, demoDatasetPromise, db, clock, env, builds>>

\* the statement the catch block issues
catchStatement == "ROLLBACK"

\* the store after the statement that ends a transaction
transactionEnd(statement, committed, work) ==
    IF statement = "COMMIT" THEN work ELSE committed

\* a catch block that reports the failure on a fresh result object
caughtResult_countersReset(result, error) ==
    [EmptyResult EXCEPT !.errors = Append(result.errors, toErrorMessage(error))]

\* ingestion.ts runIngestionImport, the catch block after the ROLLBACK: the
\* message is pushed onto the result object of the call
caughtResult(result, error) ==
    [result EXCEPT !.errors = Append(@, toErrorMessage(error))]

\* the ingestion import route POST after validation: ok(result) for a call
\* that returned, the catch block for one that threw
importRouteAnswer(kind, value) ==
    IF kind = "return"
    THEN [status |-> 200, code |-> "ok", data |-> Some(value)]
    ELSE [status |-> writeRouteCatch(value).status,
          code |-> writeRouteCatch(value).code, data |-> None]

ImportAnswer(kind, result) ==
    [op |-> "runIngestionImport", req |-> callers.payload, kind |-> kind,
     result |-> result, before |-> callers.before, previous |-> callers.previous,
     failedAt |-> IF callers.error = None THEN 0 ELSE callers.next,
     error |-> callers.error, route |-> importRouteAnswer(kind, result)]

\* one await client.query(...) of the try block; lost: the connection ends
\* before the statement is answered
ImportQuery(lost) ==
    /\ callers.pc = "try"
    /\ LET stmt == importStatements(callers.payload)[callers.next]
           out == statementEffect(callers.work, callers.result, stmt, clock)
       IN IF lost
          THEN /\ callers' = [callers EXCEPT !.pc = "catch", !.connected = FALSE,
                                             !.error = Some(ERR_Terminated)]
               /\ UNCHANGED <<db, resp>>
          ELSE IF statementRejected(stmt)
          THEN /\ callers' = [callers EXCEPT !.pc = "catch",
                                             !.error = Some(ERR_DateRange)]
               /\ UNCHANGED <<db, resp>>
          ELSE IF stmt.kind = "COMMIT"
          THEN /\ db' = transactionEnd("COMMIT", db, callers.work)
               /\ resp' = ImportAnswer("return", callers.result)
               /\ callers' = [callers EXCEPT !.pc = "returned",
                                             !.previous = Some(callers.payload)]
          ELSE /\ callers' = [callers EXCEPT !.work = out.work, !.result = out.result,
                                             !.next = @ + 1]
               /\ UNCHANGED <<db, resp>>
    /\ UNCHANGED <<seedFile, demoDatasetPromise, clock, env, builds>>

\* the catch block: await client.query("ROLLBACK"), then the message is
\* pushed and the result returned; on a connection that has ended the
\* ROLLBACK rejects, the rejection leaves the function, and the store drops
\* the open transaction
ImportCatch(lost) ==
    /\ callers.pc = "catch"
    /\ IF lost \/ ~callers.connected
       THEN /\ db' = db
            /\ resp' = ImportAnswer("throw", ERR_Terminated)
            /\ callers' = [callers EXCEPT !.pc = "thrown", !.connected = FALSE]
       ELSE /\ db' = transactionEnd(catchStatement, db, callers.work)
            /\ resp' = ImportAnswer("return",
                          caughtResult(callers.result, Get(callers.error)))
            /\ callers' = [callers EXCEPT !.pc = "returned"]
    /\ UNCHANGED <<seedFile, demoDatasetPromise, clock, env, builds>>

NextImport ==
    \/ \E payload \in TxPayloads : RunIngestionImport(payload)
    \/ \E lost \in BOOLEAN : ImportQuery(lost)
    \/ \E lost \in BOOLEAN : ImportCatch(lost)

SpecImport == InitImport /\ [][NextImport]_vars

\* C11: when a statement of runIngestionImport fails after BEGIN, the store
\* is what it was before the call and the call returns its result with the
\* failure's message as the last entry of errors; it does not throw
C11_AllOrNothing ==
    (resp.op = "runIngestionImport" /\ resp.failedAt > 0) =>
        /\ db = resp.before
        /\ resp.kind = "return"
        /\ Len(resp.result.errors) >= 1

\* the numbers of sources, events and event-source links of a store
recordCounts(d) == <<Len(d.sources), Len(d.events), Len(d.event_sources)>>

\* the rows of event_sources that join the event and the source a link names
linkRows(d, link) ==
    {i \in 1..Len(d.event_sources) :
        /\ \E e \in eventIndexBySlug(d, link.event_slug) :
              d.event_sources[i].event_id = d.events[e].id
        /\ \E s \in sourceIndexByUrl(d, link.source_url) :
              d.event_sources[i].source_id = d.sources[s].id}

importCommitted == resp.op = "runIngestionImport" /\ resp.kind = "return" /\ resp.failedAt = 0

\* C12: a committed run of runIngestionImport with the batch of the run
\* committed just before it leaves the numbers of sources, events and links
\* as they were; and after any committed run each link of the batch whose
\* event and source exist has exactly one row, which carries the link's
\* quote, citation and rank
C12_ImportIdempotent ==
    importCommitted =>
        /\ resp.previous = Some(resp.req) => recordCounts(db) = recordCounts(resp.before)
        /\ \A k \in 1..Len(resp.req.event_sources) :
              LET link == resp.req.event_sources[k]
                  rows == linkRows(db, link)
              IN (/\ eventIndexBySlug(db, link.event_slug) /= {}
                  /\ sourceIndexByUrl(db, link.source_url) /= {}) =>
                    /\ Cardinality(rows) = 1
                    /\ \A i \in rows :
                          /\ db.event_sources[i].quote_excerpt = link.quote_excerpt
                          /\ db.event_sources[i].citation_note = link.citation_note
                          /\ db.event_sources[i].relevance_rank
                                = OrElse(link.relevance_rank, 1)

\* a batch with a source, an event and their link committed a second time in
\* a row, onto a store whose link row the run before had written
C12_Witness ==
    /\ importCommitted
    /\ resp.previous = Some(resp.req)
    /\ Len(resp.req.event_sources) = 1
    /\ Len(resp.req.sources) = 1
    /\ Len(resp.req.events) = 1
    /\ Len(db.event_sources) = 1
    /\ resp.result.event_source_links_upserted = 1

(***************************************************************************)
(* SpecImporter: scripts/import-seed.mjs posting a seed file to the import *)
(* route of a running server, and its fallback onto the main seed file     *)
(***************************************************************************)
MSG_DatabaseUnavailable == <<
    "D","a","t","a","b","a","s","e"," ","i","s"," ","u","n","a","v","a","i","l","a","b",
    "l","e","."," ","C","o","n","f","i","g","u","r","e"," ","D","A","T","A","B","A","S",
    "E","_","U","R","L"," ","o","r"," ","r","u","n"," ","d","e","m","o"," ","m","o","d",
    "e",".">>

\* api.ts serverError: the error object of the JSON body
serverErrorBody(message) ==
    IF isDatabaseUnavailableMessage(message)
    THEN [code |-> "SERVICE_UNAVAILABLE", message |-> MSG_DatabaseUnavailable,
          original_message |-> Some(message)]
    ELSE [code |-> "INTERNAL_ERROR", message |-> message, original_message |-> None]

\* import-seed.mjs isDbUnavailable
isDbUnavailable(parsed, status) ==
    /\ status = 503
    /\ parsed.code = "SERVICE_UNAVAILABLE"
    /\ includes(toLowerCase(parsed.message \o <<" ">>
                            \o OrElse(parsed.original_message, <<>>)),
                toLowerCase(PAT_DatabaseUrlNotSet))

\* import-seed.mjs applyDemoFallback: its mode and the main seed file after it
demoFallback(isMainSeed, mainPayload, payload) ==
    IF isMainSeed
    THEN [mode |-> "main-seed-noop", seed |-> mainPayload]
    ELSE [mode |-> "merged-into-main-seed",
          seed |-> applyDemoFallback(mainPayload, payload)]

InitImporter ==
    /\ seedFile = AccessSeed
    /\ demoDatasetPromise = PromiseNull
    /\ db = EmptyDb
    /\ clock = 0
    /\ resp = NoResp
    /\ callers = <<>>
    /\ env \in Environments
    /\ builds = <<>>

\* import-seed.mjs main without --dry-run, the server answering: the POST,
\* the import route's answer (a store failure meets getDbPool or
\* pool.connect), and what main does with the answer
SeedImport(isMainSeed, filePayload, attempt) ==
    LET payload == IF isMainSeed THEN seedFile ELSE filePayload
        failure == writeFailure(env, attempt)
        out == runIngestionImport(db, payload, clock)
        response == IF failure = None THEN Response(200, "ok")
                    ELSE writeRouteCatch(Get(failure))
        parsed == serverErrorBody(toErrorMessage(Get(failure)))
        fallback == demoFallback(isMainSeed, seedFile, payload)
        answer(mode, exitCode) ==
            [op |-> "seed:import", isMainSeed |-> isMainSeed, payload |-> payload,
             failure |-> failure, status |-> response.status, mode |-> mode,
             exitCode |-> exitCode, seedBefore |-> seedFile,
             again |-> /\ resp.op = "seed:import"
                       /\ resp.mode = mode
                       /\ resp.payload = payload]
    IN /\ isMainSeed => filePayload = seedFile
       /\ IF failure = None
          THEN /\ db' = out.db
               /\ resp' = answer("import-success", 0)
               /\ UNCHANGED seedFile
          ELSE IF isDbUnavailable(parsed, response.status)
          THEN /\ seedFile' = fallback.seed
               /\ resp' = answer(fallback.mode, 0)
               /\ UNCHANGED db
          ELSE /\ resp' = answer("import-failed", 1)
               /\ UNCHANGED <<seedFile, db>>
       /\ UNCHANGED <<demoDatasetPromise, clock, callers, env, builds>>

NextImporter ==
    \E isMainSeed \in BOOLEAN, filePayload \in MemoImports \cup {seedFile},
       attempt \in Attempts :
        SeedImport(isMainSeed, filePayload, attempt)

SpecImporter == InitImporter /\ [][NextImporter]_vars

\* C13: when the store is unavailable for the whole import, unconfigured or
\* failing the connection with a failure the classifier recognises, the
\* importer ends without error on the fallback path: for the main seed file
\* a no-op that leaves the file as it is, for another file the merge of the
\* batch written to the main seed file
C13_ImporterFallsBack ==
    (/\ resp.op = "seed:import"
     /\ resp.failure /= None
     /\ isDatabaseUnavailableError(Get(resp.failure))) =>
        /\ resp.exitCode = 0
        /\ resp.isMainSeed =>
              (resp.mode = "main-seed-noop" /\ seedFile = resp.seedBefore)
        /\ ~resp.isMainSeed =>
              /\ resp.mode = "merged-into-main-seed"
              /\ seedFile = applyDemoFallback(resp.seedBefore, resp.payload)

\* the dedupe keys of import-seed.mjs
sourceKey(item) == trim(item.source_url)
eventKey(item) == trim(OrElse(item.slug, <<>>))
linkKey(item) == trim(item.event_slug) \o STR_bars \o trim(item.source_url)

\* the records of a list under a key, and the record of the batch that is
\* the last under its key
withKey(items, keyOf(_), key) == {i \in 1..Len(items) : keyOf(items[i]) = key}
isLastOfKey(items, keyOf(_), k) ==
    \A j \in (k + 1)..Len(items) : keyOf(items[j]) /= keyOf(items[k])

lastWriteWins(merged, incoming, keyOf(_)) ==
    \A k \in 1..Len(incoming) :
        isLastOfKey(incoming, keyOf, k) =>
            /\ Cardinality(withKey(merged, keyOf, keyOf(incoming[k]))) = 1
            /\ \A i \in withKey(merged, keyOf, keyOf(incoming[k])) :
                  merged[i] = incoming[k]

isMergeAnswer == resp.op = "seed:import" /\ resp.mode = "merged-into-main-seed"

\* C14: a merge fallback run again with the payload of the merge fallback
\* just before it leaves the main seed file's sources, events and
\* event_sources as the first run left them; and after any merge each key of
\* the batch has one record in the file, the batch's last record of that key
C14_MergeIdempotent ==
    isMergeAnswer =>
        /\ resp.again => seedFile = resp.seedBefore
        /\ lastWriteWins(seedFile.sources, resp.payload.sources, sourceKey)
        /\ lastWriteWins(seedFile.events, resp.payload.events, eventKey)
        /\ lastWriteWins(seedFile.event_sources, resp.payload.event_sources, linkKey)

\* the second merge in a row of a batch whose event and link replace records
\* of the main seed file
C14_Witness ==
    /\ isMergeAnswer
    /\ resp.again
    /\ Len(resp.payload.event_sources) = 1
    /\ \E i \in 1..Len(AccessSeed.events) :
          /\ eventKey(AccessSeed.events[i]) = eventKey(resp.payload.events[1])
          /\ AccessSeed.events[i] /= resp.payload.events[1]
    /\ Len(seedFile.events) = Len(AccessSeed.events)

(***************************************************************************)
(* SpecSlug: createEvent calls, each a slug lookup and then an INSERT, on  *)
(* stores that hold events of colliding slugs                              *)
(***************************************************************************)
NumCreators == 2
Creators == 1..NumCreators

STR_crash == <<"c","r","a","s","h">>

\* the stores the calls arrive at: events of colliding slugs, imported
SlugStores ==
    {upsertEvents(EmptyDb,
                  [i \in 1..Len(slugs) |->
                      SeedEvent(Some(slugs[i]), TXT_Peg, 19710815, TXT_Asia, TXT_FXPolicy,
                                TXT_Float, TXT_NoImpact, 3, Some("published"))], 0) :
        slugs \in {<<>>, <<STR_crash>>,
                   <<STR_crash, STR_crash \o <<"-","2">>>>,
                   <<STR_crash \o <<"-","2">>, STR_crash \o <<"e","s">>>>,
                   <<STR_crash, STR_crash \o <<"-","3">>>>,
                   <<STR_crash, STR_crash \o <<"-","2","2">>>>,
                   <<STR_crash \o <<"-","3">>, STR_crash \o <<"-","2">>, STR_crash>>}}

\* inputs that passed validateCreateEventInput: no slug, and a slug that
\* normalises to one the pool holds
SlugCreateInputs ==
    CreateEventInputs \cup
    {[slug |-> Some(<<"C","r","a","s","h"," ","2">>), title |-> TXT_Peg,
      event_date |-> 19710815, region |-> TXT_Asia, category |-> TXT_FXPolicy,
      summary |-> TXT_Float, impact |-> TXT_NoImpact, importance_score |-> 3]}

InitSlug ==
    /\ seedFile = EmptySeed
    /\ demoDatasetPromise = PromiseNull
    /\ db \in SlugStores
    /\ clock = 0
    /\ resp = NoResp
    /\ callers = [c \in Creators |-> [pc |-> "idle"]]
    /\ env = [DATABASE_URL |-> Some(URL_Postgres)]
    /\ builds = <<>>

\* events.ts createEvent up to the INSERT: desiredSlug and the awaited
\* getNextAvailableSlug
CreateEventLooksUp(c, input) ==
    /\ callers[c].pc = "idle"
    /\ callers' = [callers EXCEPT ![c] =
          [pc |-> "insert", input |-> input,
           slug |-> getNextAvailableSlug(db, OrElse(input.slug, input.title)),
           existing |-> {db.events[i].slug : i \in 1..Len(db.events)}]]
    /\ UNCHANGED <<seedFile, demoDatasetPromise, db, clock, resp, env, builds>>

\* events.ts createEvent: the INSERT and the return of its row; slug TEXT
\* NOT NULL UNIQUE rejects a slug another call has stored meanwhile
CreateEventInserts(c) ==
    /\ callers[c].pc = "insert"
    /\ LET frame == callers[c]
           newDb == insertDraftEvent(db, frame.input, frame.slug)
       IN IF eventIndexBySlug(db, frame.slug) /= {}
          THEN /\ resp' = [op |-> "createEvent", req |-> frame.input, kind |-> "throw",
                           result |-> ERR_Unique, existing |-> frame.existing]
               /\ UNCHANGED db
          ELSE /\ resp' = [op |-> "createEvent", req |-> frame.input, kind |-> "ok",
                           result |-> newDb.events[Len(newDb.events)],
                           existing |-> frame.existing]
               /\ db' = newDb
    /\ callers' = [callers EXCEPT ![c] = [pc |-> "done"]]
    /\ UNCHANGED <<seedFile, demoDatasetPromise, clock, env, builds>>

NextSlug ==
    \/ \E c \in Creators, input \in SlugCreateInputs : CreateEventLooksUp(c, input)
    \/ \E c \in Creators : CreateEventInserts(c)

SpecSlug == InitSlug /\ [][NextSlug]_vars

createdBase == slugify(OrElse(resp.req.slug, resp.req.title))
suffixed(base, n) == base \o <<"-">> \o decimal(n)

\* C15: the slug createEvent stores is the normalised desired slug when no
\* event had it at the lookup, and otherwise base-n for the smallest n >= 2
\* that no event had; no other event of the store has the stored slug
C15_LowestUnusedSlug ==
    (resp.op = "createEvent" /\ resp.kind = "ok") =>
        /\ createdBase \notin resp.existing => resp.result.slug = createdBase
        /\ createdBase \in resp.existing =>
              \E n \in 2..(Cardinality(resp.existing) + 2) :
                  /\ resp.result.slug = suffixed(createdBase, n)
                  /\ suffixed(createdBase, n) \notin resp.existing
                  /\ \A m \in 2..(n - 1) : suffixed(createdBase, m) \in resp.existing
        /\ resp.result.slug \notin resp.existing
        /\ Cardinality(eventIndexBySlug(db, resp.result.slug)) = 1

\* crash and crash-2 exist, the event created for the title Crash is crash-3
C15_Witness ==
    /\ resp.op = "createEvent"
    /\ resp.kind = "ok"
    /\ {STR_crash, suffixed(STR_crash, 2)} \subseteq resp.existing
    /\ resp.req.slug = None
    /\ resp.result.slug = suffixed(STR_crash, 3)

(***************************************************************************)
(* SpecOrder: the read accessors on a seed file whose events share a      *)
(* month-day and whose sources share events, served from the snapshot and  *)
(* from the store the same file was imported into                          *)
(***************************************************************************)
OrderRanks == {Some(1), Some(5)}

\* a seed file with two events of one date, a later event of the same
\* month-day, and two sources: the first cited by two events, both cited
\* by the first event
OrderSeed(eventOrder, rankA1, rankA2, rankC1) ==
    LET a == SeedEvent(Some(<<"a">>), TXT_Crash, 19291024, TXT_US, TXT_Banking,
                       TXT_Run, TXT_AsiaHit, 2, Some("published"))
        b == SeedEvent(Some(<<"b">>), TXT_CcpEra, 19291024, TXT_US, TXT_Banking,
                       TXT_Run, TXT_NoImpact, 5, Some("published"))
        c == SeedEvent(Some(<<"c">>), TXT_Peg, 19711024, TXT_Asia, TXT_FXPolicy,
                       TXT_Float, TXT_NoImpact, 3, Some("published"))
    IN [sources |-> <<SeedSource(URL_1, Some(19710815)),
                      SeedSource(URL_2, Some(20080915))>>,
        events |-> IF eventOrder = "abc" THEN <<a, b, c>> ELSE <<c, b, a>>,
        event_sources |-> <<SeedLink(<<"a">>, URL_1, rankA1),
                            SeedLink(<<"a">>, URL_2, rankA2),
                            SeedLink(<<"c">>, URL_1, rankC1)>>]

OrderSeeds ==
    {OrderSeed(eventOrder, rankA1, rankA2, rankC1) :
        eventOrder \in {"abc", "cba"}, rankA1 \in OrderRanks,
        rankA2 \in OrderRanks, rankC1 \in OrderRanks}

OrderSlugRequests == {<<"a">>, <<"c">>}
OrderMonthDayRequests == {1024, 815}
OrderSourceIdRequests ==
    {stableUuid(STR_sourceColon \o URL_1), stableUuid(STR_sourceColon \o URL_2),
     [uuid |-> 1], [uuid |-> 2]}

\* the store holds what import-seed.mjs loaded from the seed file
InitOrder ==
    /\ seedFile \in OrderSeeds
    /\ demoDatasetPromise = PromiseNull
    /\ db = runIngestionImport(EmptyDb, seedFile, 0).db
    /\ clock = 0
    /\ resp = NoResp
    /\ callers = <<>>
    /\ env \in Environments
    /\ builds = <<>>

NextOrder ==
    \/ \E slug \in OrderSlugRequests, attempt \in Attempts :
          GetPublishedEventBySlug(slug, attempt)
    \/ \E monthDay \in OrderMonthDayRequests, attempt \in Attempts :
          ListPublishedEventsByMonthDay(monthDay, attempt)
    \/ \E sourceId \in OrderSourceIdRequests, attempt \in Attempts :
          GetSourceById(sourceId, attempt)

SpecOrder == InitOrder /\ [][NextOrder]_vars

\* rows is ordered by Before: no row comes after one it must precede
isOrdered(rows, Before(_, _)) ==
    \A i, j \in 1..Len(rows) : i < j => ~Before(rows[j], rows[i])

isSourceAnswer ==
    /\ resp.op = "getSourceById"
    /\ resp.kind = "ok"
    /\ resp.result /= None

\* C16: a source detail answered by getSourceById lists the source's linked
\* published events sorted by relevance rank, highest first
C16_LinkedEventsByRankDesc ==
    isSourceAnswer =>
        isOrdered(Get(resp.result).linked_events,
                  LAMBDA x, y : x.relevance_rank > y.relevance_rank)

isEventAnswer ==
    /\ resp.op = "getPublishedEventBySlug"
    /\ resp.kind = "ok"
    /\ resp.result /= None

\* ORDER BY relevance_rank ASC, publication_or_snapshot_date DESC NULLS LAST
rankThenPublication(x, y) ==
    \/ x.relevance_rank < y.relevance_rank
    \/ /\ x.relevance_rank = y.relevance_rank
       /\ x.publication_or_snapshot_date /= None
       /\ \/ y.publication_or_snapshot_date = None
          \/ Get(x.publication_or_snapshot_date) > Get(y.publication_or_snapshot_date)

\* C17: an event detail answered by getPublishedEventBySlug lists the event's
\* sources by relevance rank ascending, and sources of equal rank by
\* publication date descending
C17_SourcesByRankThenDate ==
    isEventAnswer => isOrdered(Get(resp.result).sources, rankThenPublication)

isMonthDayAnswer ==
    /\ resp.op = "listPublishedEventsByMonthDay"
    /\ resp.kind = "ok"

\* the slugs of the seed file's published events of a month-day
publishedOfMonthDay(payload, monthDay) ==
    {Get(payload.events[i].slug) : i \in
        {k \in 1..Len(payload.events) :
            /\ payload.events[k].status = Some("published")
            /\ monthDayOf(payload.events[k].event_date) = monthDay}}

\* C18: listPublishedEventsByMonthDay answers exactly the published events of
\* the month-day, each once, sorted by date descending and, among equal
\* dates, by importance descending
C18_MonthDayByDateThenImportance ==
    isMonthDayAnswer =>
        /\ {resp.result[i].slug : i \in 1..Len(resp.result)}
              = publishedOfMonthDay(seedFile, resp.req)
        /\ Len(resp.result) = Cardinality(publishedOfMonthDay(seedFile, resp.req))
        /\ isOrdered(resp.result, LAMBDA x, y :
              \/ x.event_date > y.event_date
              \/ /\ x.event_date = y.event_date
                 /\ x.importance_score > y.importance_score)

(***************************************************************************)
(* SpecClassify: isDatabaseUnavailableError call by call on graphs of      *)
(* objects that may refer to themselves and to each other                  *)
(***************************************************************************)
\* JavaScript values a property may hold: null or undefined, a string, a
\* reference to an object of the heap
JsNull == [kind |-> "null", ref |-> 0, text |-> <<>>]
JsString(text) == [kind |-> "string", ref |-> 0, text |-> text]
JsObject(ref) == [kind |-> "object", ref |-> ref, text |-> <<>>]

\* the conversion of a value to boolean in !error and in cause && ...
truthy(value) ==
    \/ value.kind = "object"
    \/ value.kind = "string" /\ value.text /= <<>>

\* an object of the heap: whether it is an Error instance, its message when
\* that is a string, its code when that is a string, its cause, and its
\* errors when that is an array
HeapObject(isError, message, code, cause, errors) ==
    [isError |-> isError, message |-> message, code |-> code,
     cause |-> cause, errors |-> errors]

STR_undefined == <<"u","n","d","e","f","i","n","e","d">>

\* the string RegExp.prototype.test matches against for error.message
messageText(object) ==
    IF object.message = None THEN STR_undefined ELSE Get(object.message)

\* runtime.ts asErrorLike
asErrorLike(heap, input) ==
    IF ~truthy(input) \/ input.kind /= "object" THEN None ELSE Some(heap[input.ref])

\* runtime.ts isUnavailableErrorTree line 34, the seen.has(error) test
seenHas_never(seen, error) == FALSE

seenHas(seen, error) == error \in seen

\* runtime.ts isUnavailableErrorTree lines 37-46: the object's own match
ownMatch(object) ==
    \/ object.isError /\ isDatabaseUnavailableMessage(messageText(object))
    \/ isDbUnavailableCode(object.code)
    \/ object.message /= None /\ isDatabaseUnavailableMessage(Get(object.message))

\* one activation of isUnavailableErrorTree: its argument, the statement it
\* is at, and the index of the errors item it is at
TreeCall(error) == [error |-> error, at |-> "enter", k |-> 1]

\* the activation on top of the stack returns value to its caller
returnValue(frame, value) ==
    [frame EXCEPT !.stack = SubSeq(@, 1, Len(@) - 1), !.returned = Some(value)]

\* the activation on top of the stack moves on to statement at
moveTo(frame, at) ==
    [frame EXCEPT !.stack[Len(frame.stack)].at = at,
                  !.stack[Len(frame.stack)].k = 1,
                  !.returned = None]

\* the activation on top of the stack calls isUnavailableErrorTree(error, seen)
callTree(frame, error) ==
    [frame EXCEPT !.stack = Append(@, TreeCall(error)), !.returned = None]

topCall == callers.stack[Len(callers.stack)]

ClassifyStep(frame) ==
    /\ callers' = frame
    /\ UNCHANGED <<seedFile, demoDatasetPromise, db, clock, resp, env, builds>>

\* runtime.ts isUnavailableErrorTree lines 34-46
EnterErrorTree ==
    /\ callers.stack /= <<>>
    /\ topCall.at = "enter"
    /\ LET error == topCall.error
           errorLike == asErrorLike(callers.heap, error)
       IN IF ~truthy(error) \/ seenHas(callers.seen, error)
          THEN ClassifyStep(returnValue(callers, FALSE))
          ELSE LET added == [callers EXCEPT
                                !.seen = @ \cup {error},
                                !.inspections = IF error.kind = "object"
                                                THEN [@ EXCEPT ![error.ref] = @ + 1]
                                                ELSE @]
               IN IF errorLike = None
                  THEN ClassifyStep(returnValue(added, FALSE))
                  ELSE IF ownMatch(Get(errorLike))
                  THEN ClassifyStep(returnValue(added, TRUE))
                  ELSE ClassifyStep(moveTo(added, "cause"))

\* runtime.ts isUnavailableErrorTree lines 48-49, the call on the cause
FollowCause ==
    /\ callers.stack /= <<>>
    /\ topCall.at = "cause"
    /\ callers.returned = None
    /\ LET cause == callers.heap[topCall.error.ref].cause
       IN IF truthy(cause)
          THEN ClassifyStep(callTree(callers, cause))
          ELSE ClassifyStep(moveTo(callers, "errors"))

\* runtime.ts isUnavailableErrorTree line 49, the call on the cause returned
CauseReturned ==
    /\ callers.stack /= <<>>
    /\ topCall.at = "cause"
    /\ callers.returned /= None
    /\ IF Get(callers.returned)
       THEN ClassifyStep(returnValue(callers, TRUE))
       ELSE ClassifyStep(moveTo(callers, "errors"))

\* runtime.ts isUnavailableErrorTree lines 51-56, the next item of errors
VisitNested ==
    /\ callers.stack /= <<>>
    /\ topCall.at = "errors"
    /\ callers.returned = None
    /\ LET nested == callers.heap[topCall.error.ref].errors
       IN IF nested = None \/ topCall.k > Len(Get(nested))
          THEN ClassifyStep(returnValue(callers, FALSE))
          ELSE ClassifyStep(callTree(callers, Get(nested)[topCall.k]))

\* runtime.ts isUnavailableErrorTree lines 52-54, the call on an item returned
NestedReturned ==
    /\ callers.stack /= <<>>
    /\ topCall.at = "errors"
    /\ callers.returned /= None
    /\ IF Get(callers.returned)
       THEN ClassifyStep(returnValue(callers, TRUE))
       ELSE ClassifyStep([callers EXCEPT !.stack[Len(callers.stack)].k = @ + 1,
                                         !.returned = None])

\* runtime.ts isDatabaseUnavailableError returns what the first call returned
ClassifierReturns ==
    /\ callers.stack = <<>>
    /\ resp.op = "none"
    /\ resp' = [op |-> "isDatabaseUnavailableError", req |-> callers.root,
                kind |-> "return", result |-> Get(callers.returned)]
    /\ UNCHANGED <<seedFile, demoDatasetPromise, db, clock, callers, env, builds>>

\* the signatures the message of an unavailable store is specified to carry
SpecifiedSignatures ==
    {DB_UNAVAILABLE_PATTERNS[k] : k \in 1..Len(DB_UNAVAILABLE_PATTERNS)}
        \cup {PAT_ECONNRESET, PAT_EHOSTUNREACH}

\* what an object says of itself: instance of Error or not, message, code
OwnFields(isError, message, code) ==
    [isError |-> isError, message |-> message, code |-> code]

PlainFields == OwnFields(TRUE, Some(MSG_QueryFailed), None)

\* Error instances whose message holds a signature, plain objects whose
\* message holds it in lower case, codes in both cases, and objects that
\* show nothing: a data error, a code that only contains a network code,
\* an Error whose message is no string, an object without properties
OwnFieldsPool ==
    {OwnFields(TRUE, Some(MSG_QueryFailed \o <<":"," ">> \o signature), None) :
        signature \in SpecifiedSignatures}
    \cup {OwnFields(FALSE, Some(toLowerCase(signature)), None) :
        signature \in SpecifiedSignatures}
    \cup {OwnFields(TRUE, Some(MSG_QueryFailed), Some(code)) :
        code \in DB_UNAVAILABLE_CODES}
    \cup {OwnFields(FALSE, None, Some(toLowerCase(code))) :
        code \in DB_UNAVAILABLE_CODES}
    \cup {OwnFields(TRUE, Some(MSG_DuplicateKey), Some(CODE_23505)),
          OwnFields(TRUE, Some(MSG_QueryFailed), Some(PAT_ECONNREFUSED \o <<"X">>)),
          OwnFields(TRUE, None, None),
          OwnFields(FALSE, None, None)}

Edges(cause, errors) == [cause |-> cause, errors |-> errors]

\* how three objects refer to each other: not at all, a chain of causes, a
\* cause that is the object itself, two objects that are each other's cause,
\* an aggregate, an aggregate that lists itself, an object reached by two
\* ways, and properties that hold strings and null instead of objects
ReferenceShapes == {
    <<Edges(JsNull, None), Edges(JsNull, None), Edges(JsNull, None)>>,
    <<Edges(JsObject(2), None), Edges(JsObject(3), None), Edges(JsNull, None)>>,
    <<Edges(JsObject(1), None), Edges(JsNull, None), Edges(JsNull, None)>>,
    <<Edges(JsObject(2), None), Edges(JsObject(1), Some(<<JsObject(3)>>)),
      Edges(JsNull, Some(<<>>))>>,
    <<Edges(JsNull, Some(<<JsObject(2), JsObject(3)>>)), Edges(JsNull, None),
      Edges(JsNull, None)>>,
    <<Edges(JsNull, Some(<<JsObject(1), JsObject(2)>>)),
      Edges(JsNull, Some(<<JsObject(1), JsObject(3)>>)), Edges(JsObject(3), None)>>,
    <<Edges(JsObject(2), Some(<<JsObject(2), JsObject(3)>>)),
      Edges(JsObject(3), None), Edges(JsNull, None)>>,
    <<Edges(JsString(PAT_ECONNREFUSED),
            Some(<<JsNull, JsString(MSG_ConnectRefused), JsObject(3)>>)),
      Edges(JsNull, None), Edges(JsString(<<>>), None)>>}

\* the heap of shape whose object k has the given own fields
HeapOf(shape, k, fields) ==
    [i \in DOMAIN shape |->
        LET own == IF i = k THEN fields ELSE PlainFields
        IN HeapObject(own.isError, own.message, own.code,
                      shape[i].cause, shape[i].errors)]

\* the values isDatabaseUnavailableError is called with: the first object
\* of a heap, and null, a string and the empty string
ClassifierInputs ==
    UNION {{[heap |-> HeapOf(shape, k, fields), root |-> JsObject(1)] :
                k \in DOMAIN shape, fields \in OwnFieldsPool} :
           shape \in ReferenceShapes}
    \cup {[heap |-> HeapOf(shape, 1, PlainFields), root |-> root] :
            shape \in {s \in ReferenceShapes : s[1].cause = JsObject(1)},
            root \in {JsNull, JsString(MSG_ConnectRefused), JsString(<<>>)}}

\* isDatabaseUnavailableError(error): the first call, with an empty seen
InitClassify ==
    /\ seedFile = EmptySeed
    /\ demoDatasetPromise = PromiseNull
    /\ db = EmptyDb
    /\ clock = 0
    /\ resp = NoResp
    /\ \E input \in ClassifierInputs :
         callers = [heap |-> input.heap, root |-> input.root, seen |-> {},
                    stack |-> <<TreeCall(input.root)>>, returned |-> None,
                    inspections |-> [i \in DOMAIN input.heap |-> 0]]
    /\ env = [DATABASE_URL |-> None]
    /\ builds = <<>>

NextClassify ==
    \/ EnterErrorTree
    \/ FollowCause
    \/ CauseReturned
    \/ VisitNested
    \/ NestedReturned
    \/ ClassifierReturns

SpecClassify == InitClassify /\ [][NextClassify]_vars

\* the call runs on one thread to its end
SpecClassifyRuns == SpecClassify /\ WF_vars(NextClassify)

\* the objects a value refers to directly: its cause and the items of errors
referredBy(heap, i) ==
    {v.ref : v \in {w \in {heap[i].cause} \cup
                          (IF heap[i].errors = None THEN {}
                           ELSE {Get(heap[i].errors)[k] :
                                    k \in 1..Len(Get(heap[i].errors))}) :
                     w.kind = "object"}}

RECURSIVE reachableFrom(_, _)
reachableFrom(heap, found) ==
    LET more == found \cup UNION {referredBy(heap, i) : i \in found}
    IN IF more = found THEN found ELSE reachableFrom(heap, more)

\* the objects reachable from a value through cause and errors
reachableObjects(heap, root) ==
    IF root.kind = "object" THEN reachableFrom(heap, {root.ref}) ELSE {}

\* the object's message carries a specified signature or its code is one of
\* the network codes, letter case aside
carriesSignature(object) ==
    \/ /\ object.message /= None
       /\ \E signature \in SpecifiedSignatures :
             includes(toLowerCase(Get(object.message)), toLowerCase(signature))
    \/ /\ object.code /= None
       /\ toLowerCase(Get(object.code)) \in LowerCodes

isClassifierAnswer == resp.op = "isDatabaseUnavailableError"

\* C19: isDatabaseUnavailableError answers true exactly for the values from
\* which an object is reachable, through cause and errors, whose message
\* carries one of the specified signatures or whose code is a network code
C19_ClassifiesSignatures ==
    isClassifierAnswer =>
        (resp.result <=> \E i \in reachableObjects(callers.heap, callers.root) :
                            carriesSignature(callers.heap[i]))

\* C20: isDatabaseUnavailableError inspects no object twice, comes to an end
\* on every graph, cyclic ones included, and returns a boolean
C20_TerminatesInspectingOnce ==
    /\ [](/\ \A i \in DOMAIN callers.inspections : callers.inspections[i] <= 1
          /\ isClassifierAnswer => resp.kind = "return" /\ resp.result \in BOOLEAN)
    /\ <>isClassifierAnswer

\* the call answered on an object that is its own cause, after following it
C20_Witness ==
    /\ isClassifierAnswer
    /\ callers.root = JsObject(1)
    /\ callers.heap[1].cause = JsObject(1)
    /\ callers.inspections[1] = 1
    /\ resp.result = FALSE

\* the links of a batch that name an event slug or a source URL the store
\* does not hold
unresolvedLinks(d, payload) ==
    {k \in 1..Len(payload.event_sources) :
        \/ eventIndexBySlug(d, payload.event_sources[k].event_slug) = {}
        \/ sourceIndexByUrl(d, payload.event_sources[k].source_url) = {}}

\* C21: a committed run of runIngestionImport reports each link whose event
\* slug or source URL does not resolve with one message and does not count
\* it, while every source and event of the batch is upserted and every other
\* link has its row
C21_SkippedLinksReported ==
    importCommitted =>
        LET payload == resp.req
            skipped == unresolvedLinks(db, payload)
        IN /\ Len(resp.result.errors) = Cardinality(skipped)
           /\ \A i \in 1..Len(resp.result.errors) : resp.result.errors[i] = MSG_LinkSkipped
           /\ resp.result.event_source_links_upserted
                 = Len(payload.event_sources) - Cardinality(skipped)
           /\ resp.result.sources_upserted = Len(payload.sources)
           /\ resp.result.events_upserted = Len(payload.events)
           /\ \A i \in 1..Len(payload.sources) :
                 sourceIndexByUrl(db, payload.sources[i].source_url) /= {}
           /\ \A i \in 1..Len(payload.events) :
                 \E e \in 1..Len(db.events) : db.events[e].title = payload.events[i].title
           /\ \A k \in (1..Len(payload.event_sources)) \ skipped :
                 linkRows(db, payload.event_sources[k]) /= {}

\* a committed batch whose first two links were skipped and whose third link,
\* source and event are in the store
C21_Witness ==
    /\ importCommitted
    /\ Len(resp.req.event_sources) = 3
    /\ unresolvedLinks(db, resp.req) = {1, 2}
    /\ Len(resp.result.errors) = 2
    /\ resp.result.event_source_links_upserted = 1
    /\ linkRows(db, resp.req.event_sources[3]) /= {}
    /\ resp.before = EmptyDb

(***************************************************************************)
(* SpecSnapshot: the timelines and listings of snapshots built from seed  *)
(* files of up to three events, two of which have slugs that normalise to  *)
(* the same slug                                                           *)
(***************************************************************************)
MaxSnapshotEvents == 3

SnapshotEventPool == {
    SeedEvent(Some(<<"a">>), TXT_Crash, 19291024, TXT_US, TXT_Banking, TXT_Run,
              TXT_AsiaHit, 5, Some("published")),
    SeedEvent(Some(<<"A">>), TXT_Peg, 19710815, TXT_Asia, TXT_Banking, TXT_Float,
              TXT_NoImpact, 3, Some("published")),
    SeedEvent(Some(<<"c">>), TXT_CcpEra, 20080915, TXT_Asia, TXT_FXPolicy, TXT_Run,
              TXT_NoImpact, 3, Some("published")),
    SeedEvent(Some(<<"d">>), TXT_Peg, 19291024, TXT_US, TXT_Banking, TXT_Float,
              TXT_NoImpact, 4, Some("published")),
    SeedEvent(Some(<<"b">>), TXT_Crash, 19600101, TXT_Asia, TXT_Banking, TXT_Run,
              TXT_NoImpact, 2, Some("archived"))}

SnapshotSeeds ==
    {[sources |-> <<>>, events |-> e, event_sources |-> <<>>] :
        e \in SeqsUpTo(SnapshotEventPool, MaxSnapshotEvents)}

TimelineSlugRequests == {TimelineSlugs[1], TimelineSlugs[2]}

\* list requests with each filter of the list route, each sort, and pages
\* inside, at the end of and beyond the matching events
SnapshotListRequests == {
    [NoFilters(1, 20, "date_asc") EXCEPT !.from = Some(19700101)],
    [NoFilters(1, 20, "date_desc") EXCEPT !.date = Some(19291024)],
    [NoFilters(1, 20, "importance_desc") EXCEPT !.to = Some(19700101)],
    [NoFilters(1, 1, "date_desc") EXCEPT !.category = Some(TXT_Banking)],
    [NoFilters(2, 1, "date_desc") EXCEPT !.category = Some(TXT_Banking)],
    [NoFilters(1, 2, "date_asc") EXCEPT !.region = Some(TXT_Asia)],
    [NoFilters(1, 20, "importance_desc") EXCEPT
        !.tag = Some(<<"b","a","n","k","i","n","g">>), !.importanceMin = Some(4)],
    NoFilters(2, 2, "date_desc"),
    NoFilters(3, 2, "importance_desc")}

InitSnapshot ==
    /\ seedFile \in SnapshotSeeds
    /\ demoDatasetPromise = PromiseNull
    /\ db = EmptyDb
    /\ clock = 0
    /\ resp = NoResp
    /\ callers = <<>>
    /\ env = [DATABASE_URL |-> None]
    /\ builds = <<>>

NextSnapshot ==
    \/ \E filters \in SnapshotListRequests : ListPublishedEvents(filters, None)
    \/ ListTimelinesPublic(None)
    \/ \E slug \in TimelineSlugRequests : GetTimelineBySlug(slug, None)

SpecSnapshot == InitSnapshot /\ [][NextSnapshot]_vars

\* the membership rows of a timeline in the snapshot
membersOf(dataset, timeline) ==
    SelectSeq(dataset.timelineEvents, LAMBDA row : row.timeline_id = timeline.id)

\* the event_date of the event a membership row refers to
memberDate(dataset, row) == Get(findPublishedEvent(dataset, row.event_id)).event_date

\* C22: in a built snapshot the members of each timeline carry the sequence
\* numbers 1..k, each once, and a member with a larger sequence number has
\* no earlier event_date than one with a smaller number
C22_SequenceFollowsDate ==
    snapshotBuilt =>
        LET dataset == snapshot
        IN \A t \in 1..Len(dataset.timelines) :
              LET rows == membersOf(dataset, dataset.timelines[t])
              IN /\ {rows[i].sequence_no : i \in 1..Len(rows)} = 1..Len(rows)
                 /\ \A i, j \in 1..Len(rows) :
                       rows[i].sequence_no < rows[j].sequence_no =>
                          memberDate(dataset, rows[i]) <= memberDate(dataset, rows[j])

isDemoListing ==
    /\ resp.op = "listPublishedEvents"
    /\ resp.kind = "ok"
    /\ resp.path = "demo"

\* the event is published and passes every filter the request supplies
matchesFilters(dataset, event, filters) ==
    /\ event.status = "published"
    /\ filters.date /= None => event.event_date = Get(filters.date)
    /\ filters.from /= None => event.event_date >= Get(filters.from)
    /\ filters.to /= None => event.event_date <= Get(filters.to)
    /\ filters.category /= None => event.category = Get(filters.category)
    /\ filters.region /= None => event.region = Get(filters.region)
    /\ filters.tag /= None =>
          \E k \in 1..Len(demoTagsOf(dataset, event.id)) :
              demoTagsOf(dataset, event.id)[k] = Get(filters.tag)
    /\ filters.importanceMin /= None =>
          event.importance_score >= Get(filters.importanceMin)

\* x comes before y in the requested sort
sortsBefore(sort, x, y) ==
    CASE sort = "date_asc" -> x.event_date < y.event_date
      [] sort = "importance_desc" -> x.importance_score > y.importance_score
      [] OTHER -> x.event_date > y.event_date

\* C23: on the in-memory path listPublishedEvents answers the page of the
\* published events that pass every supplied filter, in the requested
\* order: each item is such an event and stands where the order puts it,
\* the page has the length the slice has, total counts the matching events
\* and total_pages is ceil(total / pageSize)
C23_DemoListingIsSlice ==
    (isDemoListing /\ resp.req.q = None) =>
        LET dataset == snapshot
            filters == resp.req
            matching == {i \in 1..Len(dataset.events) :
                            matchesFilters(dataset, dataset.events[i], filters)}
            total == Cardinality(matching)
            offset == (filters.page - 1) * filters.pageSize
            upTo == IF filters.page * filters.pageSize < total
                    THEN filters.page * filters.pageSize ELSE total
            items == resp.result.items
        IN /\ resp.result.pagination.total = total
           /\ resp.result.pagination.total_pages =
                 (IF total = 0 THEN 0
                  ELSE CHOOSE n \in 1..total :
                          (n - 1) * filters.pageSize < total /\ total <= n * filters.pageSize)
           /\ Len(items) = (IF upTo > offset THEN upTo - offset ELSE 0)
           /\ \A p \in 1..Len(items) :
                 /\ \E i \in matching :
                       /\ dataset.events[i].slug = items[p].slug
                       /\ dataset.events[i].title = items[p].title
                       /\ dataset.events[i].event_date = items[p].event_date
                       /\ dataset.events[i].importance_score = items[p].importance_score
                 /\ Cardinality({i \in matching :
                        sortsBefore(filters.sort, dataset.events[i], items[p])})
                       < offset + p
                 /\ Cardinality({i \in matching :
                        ~sortsBefore(filters.sort, items[p], dataset.events[i])})
                       >= offset + p

\* the seed with published events dated 1929-10-24, 2008-09-15 and
\* 1971-08-15 listed with from=1970-01-01 and sort=date_asc: the events of
\* 1971 and 2008 in that order, total 2
C23_Witness ==
    /\ isDemoListing
    /\ resp.req = [NoFilters(1, 20, "date_asc") EXCEPT !.from = Some(19700101)]
    /\ Len(seedFile.events) = 3
    /\ [i \in 1..3 |-> seedFile.events[i].event_date] = <<19291024, 20080915, 19710815>>
    /\ \A i \in 1..3 : seedFile.events[i].status = Some("published")
    /\ [p \in 1..Len(resp.result.items) |-> resp.result.items[p].event_date]
          = <<19710815, 20080915>>
    /\ resp.result.pagination.total = 2
    /\ resp.result.pagination.total_pages = 1

(***************************************************************************)
(* SpecRebuild: processes that build their snapshot at different times     *)
(* from a seed file whose records an editor may reorder                    *)
(***************************************************************************)
MaxBuilds == 2

reversed(seq) == [i \in 1..Len(seq) |-> seq[Len(seq) + 1 - i]]

\* demo-store.ts buildDataset with the fields it stamps with the build time
buildDatasetAt(payload, now) ==
    LET dataset == buildDatasetFrom(payload)
        stamped(records) ==
            [i \in 1..Len(records) |->
                [id |-> records[i].id, created_at |-> now, updated_at |-> now]]
    IN [dataset |-> dataset,
        stamps |-> [sources |-> stamped(dataset.sources),
                    events |-> stamped(dataset.events)]]

InitRebuild ==
    /\ seedFile \in OrderSeeds
    /\ demoDatasetPromise = PromiseNull
    /\ db = EmptyDb
    /\ clock = 0
    /\ resp = NoResp
    /\ callers = <<>>
    /\ env = [DATABASE_URL |-> None]
    /\ builds = <<>>

\* the records of the seed file are written back in another order
SeedReordered ==
    /\ seedFile' = [sources |-> reversed(seedFile.sources),
                    events |-> reversed(seedFile.events),
                    event_sources |-> reversed(seedFile.event_sources)]
    /\ UNCHANGED <<demoDatasetPromise, db, clock, resp, callers, env, builds>>

\* a process starts and its first read builds the snapshot
ProcessBuilds ==
    /\ Len(builds) < MaxBuilds
    /\ builds' = Append(builds, [at |-> clock, payload |-> seedFile,
                                 built |-> buildDatasetAt(seedFile, clock)])
    /\ UNCHANGED <<seedFile, demoDatasetPromise, db, clock, resp, callers, env>>

NextRebuild ==
    \/ Tick
    \/ SeedReordered
    \/ ProcessBuilds

SpecRebuild == InitRebuild /\ [][NextRebuild]_vars

\* C24: in any two builds of the seed content, whatever the build time and
\* the order of the records, events of the same normalized slug have the
\* same id and sources of the same URL have the same id
C24_IdsFollowNaturalKey ==
    \A m, n \in 1..Len(builds) :
        LET one == builds[m].built.dataset
            other == builds[n].built.dataset
        IN /\ Len(one.events) = Len(builds[m].payload.events)
           /\ Len(one.sources) = Len(builds[m].payload.sources)
           /\ \A i \in 1..Len(one.events), j \in 1..Len(other.events) :
                 one.events[i].slug = other.events[j].slug
                    => one.events[i].id = other.events[j].id
           /\ \A i \in 1..Len(one.sources), j \in 1..Len(other.sources) :
                 one.sources[i].source_url = other.sources[j].source_url
                    => one.sources[i].id = other.sources[j].id

\* two builds at different times from the records in different orders
C24_Witness ==
    /\ Len(builds) = 2
    /\ builds[1].at /= builds[2].at
    /\ builds[1].payload.events = reversed(builds[2].payload.events)
    /\ builds[1].payload.events /= builds[2].payload.events
    /\ builds[1].built.stamps /= builds[2].built.stamps
    /\ {builds[1].built.dataset.events[i].id : i \in 1..3}
          = {builds[2].built.dataset.events[i].id : i \in 1..3}

(***************************************************************************)
(* SpecNavigate: a client that lists events, opens the detail of a listed  *)
(* event and then one of its sources, against one store on one data path   *)
(***************************************************************************)
InitNavigate ==
    /\ seedFile \in SeedPayloads
    /\ demoDatasetPromise = PromiseNull
    /\ db = EmptyDb
    /\ clock = 0
    /\ resp = NoResp
    /\ callers = <<>>
    /\ env \in {[DATABASE_URL |-> None], [DATABASE_URL |-> Some(URL_Postgres)]}
    /\ builds = <<>>

\* the store is filled before the client reads: runIngestionImport
StoreImports(payload) ==
    /\ hasDatabaseConfig(env)
    /\ resp.op /= "navigate"
    /\ runIngestionImport(db, payload, clock).db /= db
    /\ LiveWrote("runIngestionImport", payload,
                 runIngestionImport(db, payload, clock).db, "ok", None)

\* the store is changed before the client reads: archiveEvent
StoreArchives(eventId) ==
    /\ hasDatabaseConfig(env)
    /\ resp.op /= "navigate"
    /\ eventIndexById(db, eventId) /= {}
    /\ LiveArchiveEvent(eventId)

Navigated(answer, path) ==
    /\ resp' = answer
    /\ demoDatasetPromise' = IF path = "demo" THEN PromiseFulfilled(datasetNow)
                             ELSE demoDatasetPromise
    /\ UNCHANGED <<seedFile, db, clock, callers, env, builds>>

\* GET /api/v1/events: listPublishedEvents
NavigateList(filters) ==
    \E liveResult \in listPublishedEventsLive(db, filters) :
        LET out == dualPath(env, None, liveResult,
                            listPublishedEventsFromDemo(datasetNow, filters))
        IN Navigated([op |-> "navigate", stage |-> "listed", path |-> out.path,
                      req |-> filters, items |-> out.result.items,
                      slug |-> None, detail |-> None,
                      sourceId |-> None, source |-> None], out.path)

\* GET /api/v1/events/:slug with the slug of a listed item
NavigateDetail(p) ==
    /\ resp.op = "navigate"
    /\ resp.stage = "listed"
    /\ \E liveResult \in getPublishedEventBySlugLive(db, resp.items[p].slug) :
         LET out == dualPath(env, None, liveResult,
                        getPublishedEventBySlugFromDemo(datasetNow, resp.items[p].slug))
         IN Navigated([resp EXCEPT !.stage = "detailed",
                                   !.slug = Some(resp.items[p].slug),
                                   !.detail = Some(out.result)], out.path)

\* GET /api/v1/sources/:id with the id of a source of the detail
NavigateSource(k) ==
    /\ resp.op = "navigate"
    /\ resp.stage = "detailed"
    /\ Get(resp.detail) /= None
    /\ LET sourceId == Get(Get(resp.detail)).sources[k].id
       IN \E liveResult \in getSourceByIdLive(db, sourceId) :
            LET out == dualPath(env, None, liveResult,
                                getSourceByIdFromDemo(datasetNow, sourceId))
            IN Navigated([resp EXCEPT !.stage = "sourced",
                                      !.sourceId = Some(sourceId),
                                      !.source = Some(out.result)], out.path)

NavigateListRequests == {
    NoFilters(1, 20, "date_desc"),
    NoFilters(2, 1, "importance_desc"),
    [NoFilters(1, 20, "date_asc") EXCEPT !.from = Some(19700101)]}

\* the items the client has listed and the sources of the detail it has opened
listedItems == IF resp.op = "navigate" THEN resp.items ELSE <<>>
detailSources ==
    IF resp.op = "navigate" /\ resp.detail /= None /\ Get(resp.detail) /= None
    THEN Get(Get(resp.detail)).sources ELSE <<>>

NextNavigate ==
    \/ StoreImports(seedFile)
    \/ \E eventId \in EventIds : StoreArchives(eventId)
    \/ \E filters \in NavigateListRequests : NavigateList(filters)
    \/ \E p \in 1..Len(listedItems) : NavigateDetail(p)
    \/ \E k \in 1..Len(detailSources) : NavigateSource(k)

SpecNavigate == InitNavigate /\ [][NextNavigate]_vars

\* C25: the detail asked for with the slug of a listed event exists and
\* carries that slug, and the source asked for with the id of a source of
\* that detail exists and carries that id
C25_ReadsNavigable ==
    resp.op = "navigate" =>
        /\ resp.stage \in {"detailed", "sourced"} =>
              /\ Get(resp.detail) /= None
              /\ Get(Get(resp.detail)).slug = Get(resp.slug)
        /\ resp.stage = "sourced" =>
              /\ Get(resp.source) /= None
              /\ Get(Get(resp.source)).id = Get(resp.sourceId)

\* a client on the live path opened a source of the detail of a listed event
\* while the store held another event the listing did not show
C25_Witness ==
    /\ resp.op = "navigate"
    /\ resp.stage = "sourced"
    /\ resp.path = "live"
    /\ Len(db.events) = 2
    /\ Get(Get(resp.source)).id = Get(resp.sourceId)
    /\ Get(Get(resp.detail)).slug = Get(resp.slug)

(***************************************************************************)
(* SpecMerge: two runs of import-seed.mjs that fall back onto the main     *)
(* seed file at the same time, each for a file of its own                  *)
(***************************************************************************)
Importers == {"first", "second"}

\* the files the two runs import: the two merged while a process runs, and
\* one that brings a source, an event and their link
MergeFiles ==
    MemoImports \cup {
    [sources |-> <<SeedSource(URL_9, Some(20080915))>>,
     events |-> <<SeedEvent(Some(<<"c">>), TXT_CcpEra, 20080915, TXT_US, TXT_Banking,
                            TXT_Run, TXT_NoImpact, 4, Some("published"))>>,
     event_sources |-> <<SeedLink(<<"c">>, URL_9, Some(3))>>]}

IdleImporter == [pc |-> "idle", payload |-> None, mainPayload |-> None, writesSeen |-> 0]

\* the main seed file before the two runs: the seed of the repository, or
\* a file with no records yet
MainSeedFiles == {AccessSeed, EmptySeed}

InitMerge ==
    /\ seedFile \in MainSeedFiles
    /\ demoDatasetPromise = PromiseNull
    /\ db = EmptyDb
    /\ clock = 0
    /\ resp = NoResp
    /\ callers = [i \in Importers |-> IdleImporter]
    /\ env = [DATABASE_URL |-> None]
    /\ builds = <<>>

writesDone == Cardinality({i \in Importers : callers[i].pc = "done"})

\* what a run writes back with a re-read of the file at the time of writing
mergedContent_rereads(current, mainPayload, payload) == applyDemoFallback(current, payload)

\* import-seed.mjs applyDemoFallback lines 67-88: the content written is the
\* merge of the content read before with the payload
mergedContent(current, mainPayload, payload) == applyDemoFallback(mainPayload, payload)

\* import-seed.mjs applyDemoFallback up to the end of await fs.readFile
FallbackReads(i, payload) ==
    /\ callers[i].pc = "idle"
    /\ \A j \in Importers : callers[j].payload /= Some(payload)
    /\ callers' = [callers EXCEPT ![i] =
                      [pc |-> "merging", payload |-> Some(payload),
                       mainPayload |-> Some(seedFile), writesSeen |-> writesDone]]
    /\ UNCHANGED <<seedFile, demoDatasetPromise, db, clock, resp, env, builds>>

\* import-seed.mjs applyDemoFallback from the merge to the end of
\* await fs.writeFile
FallbackWrites(i) ==
    /\ callers[i].pc = "merging"
    /\ seedFile' = mergedContent(seedFile, Get(callers[i].mainPayload),
                                 Get(callers[i].payload))
    /\ callers' = [callers EXCEPT ![i].pc = "done"]
    /\ resp' = [op |-> "applyDemoFallback", by |-> i, mode |-> "merged-into-main-seed",
                before |-> seedFile]
    /\ UNCHANGED <<demoDatasetPromise, db, clock, env, builds>>

NextMerge ==
    \/ \E i \in Importers, payload \in MergeFiles : FallbackReads(i, payload)
    \/ \E i \in Importers : FallbackWrites(i)

SpecMerge == InitMerge /\ [][NextMerge]_vars

\* every record of the payload is in the file
holdsRecords(file, payload) ==
    /\ \A k \in 1..Len(payload.sources) :
          \E m \in 1..Len(file.sources) : file.sources[m] = payload.sources[k]
    /\ \A k \in 1..Len(payload.events) :
          \E m \in 1..Len(file.events) : file.events[m] = payload.events[k]
    /\ \A k \in 1..Len(payload.event_sources) :
          \E m \in 1..Len(file.event_sources) :
              file.event_sources[m] = payload.event_sources[k]

\* the two payloads have no source URL, event slug or link in common
disjointKeys(one, other) ==
    /\ \A k \in 1..Len(one.sources), m \in 1..Len(other.sources) :
          sourceKey(one.sources[k]) /= sourceKey(other.sources[m])
    /\ \A k \in 1..Len(one.events), m \in 1..Len(other.events) :
          eventKey(one.events[k]) /= eventKey(other.events[m])
    /\ \A k \in 1..Len(one.event_sources), m \in 1..Len(other.event_sources) :
          linkKey(one.event_sources[k]) /= linkKey(other.event_sources[m])

bothMerged ==
    /\ \A i \in Importers : callers[i].pc = "done"
    /\ disjointKeys(Get(callers["first"].payload), Get(callers["second"].payload))

\* C26: when the two merges ran one after the other the main seed file
\* holds the records of both payloads; when both read the file before
\* either wrote, the file is the merge of the original content with the
\* payload of the last writer alone and lacks records of the other payload
C26_ConcurrentMergeLosesRecords ==
    bothMerged =>
        /\ (\E i \in Importers : callers[i].writesSeen = 1) =>
              \A i \in Importers : holdsRecords(seedFile, Get(callers[i].payload))
        /\ (\A i \in Importers : callers[i].writesSeen = 0) =>
              /\ \E original \in MainSeedFiles :
                    /\ \A i \in Importers : callers[i].mainPayload = Some(original)
                    /\ seedFile = applyDemoFallback(original,
                                                    Get(callers[resp.by].payload))
              /\ \E i \in Importers : ~holdsRecords(seedFile, Get(callers[i].payload))

\* both runs read the main seed file before either wrote it, and the file
\* has the records of the second run and lacks those of the first
C26_Witness ==
    /\ bothMerged
    /\ \A i \in Importers : callers[i].writesSeen = 0
    /\ resp.by = "second"
    /\ holdsRecords(seedFile, Get(callers["second"].payload))
    /\ ~holdsRecords(seedFile, Get(callers["first"].payload))

\* two events of the store have the same slug
slugShared(d) ==
    \E i \in 1..Len(d.events), j \in 1..Len(d.events) :
        i /= j /\ d.events[i].slug = d.events[j].slug

\* the INSERT of a call whose slug another event has taken since the lookup
insertsTakenSlug ==
    \E c \in Creators :
        /\ callers[c].pc = "insert"
        /\ callers'[c].pc = "done"
        /\ eventIndexBySlug(db, callers[c].slug) /= {}

\* C27: no two events of the store share a slug; the INSERT of a slug that
\* another call stored since the lookup stores nothing and re-suffixes
\* nothing: it throws the unique violation, which the route answers with
\* 409 CONFLICT
C27_ConcurrentCreatesConflict ==
    /\ [](~slugShared(db))
    /\ [][insertsTakenSlug =>
            /\ db' = db
            /\ resp'.kind = "throw"
            /\ resp'.result.code = Some(CODE_23505)
            /\ createEventRouteCatch(resp'.result) = Response(409, "CONFLICT")]_vars

\* two calls for the title Crash looked up a store without crash; one
\* stored crash, and the INSERT of the other was rejected
C27_Witness ==
    /\ resp.op = "createEvent"
    /\ resp.kind = "throw"
    /\ \A c \in Creators : callers[c].pc = "done"
    /\ resp.req.slug = None
    /\ slugify(resp.req.title) = STR_crash
    /\ STR_crash \notin resp.existing
    /\ Cardinality(eventIndexBySlug(db, STR_crash)) = 1
    /\ Len(db.events) = Cardinality(resp.existing) + 1
    /\ createEventRouteCatch(resp.result) = Response(409, "CONFLICT")

(***************************************************************************)
(* SpecBroken: getDemoDataset in a process whose seed file is missing or   *)
(* malformed at times, and repaired or broken on disk while it runs        *)
(***************************************************************************)
Readers == {"early", "late"}

MSG_NoEntry == <<"E","N","O","E","N","T">>
MSG_UnexpectedEnd == <<"U","n","e","x","p","e","c","t","e","d"," ","e","n","d">>
CODE_ENOENT == <<"E","N","O","E","N","T">>

\* fs.readFile on a path with no file, and JSON.parse on a truncated text
ERR_NoEntry == ErrorObject(MSG_NoEntry, Some(CODE_ENOENT), None, <<>>)
ERR_JsonSyntax == ErrorObject(MSG_UnexpectedEnd, None, None, <<>>)

\* seeds/financial-history.seed.json on disk
FileMissing == [state |-> "missing", payload |-> None]
FileMalformed == [state |-> "malformed", payload |-> None]
FileJson(payload) == [state |-> "json", payload |-> Some(payload)]

SeedFilesOnDisk ==
    {FileMissing, FileMalformed, FileJson(AccessSeed), FileJson(EmptySeed)}

PromiseRejected(error) == [state |-> "rejected", value |-> Some(error)]

\* demo-store.ts loadSeedPayload: readFile, then JSON.parse
loadSeedPayload(file) ==
    IF file.state = "missing" THEN [kind |-> "throw", value |-> ERR_NoEntry]
    ELSE IF file.state = "malformed" THEN [kind |-> "throw", value |-> ERR_JsonSyntax]
    ELSE [kind |-> "ok", value |-> Get(file.payload)]

InitBroken ==
    /\ seedFile \in SeedFilesOnDisk
    /\ demoDatasetPromise = PromiseNull
    /\ db = EmptyDb
    /\ clock = 0
    /\ resp = NoResp
    /\ callers = [c \in Readers |-> IdleCaller]
    /\ env = [DATABASE_URL |-> None]
    /\ builds = <<>>

\* demo-store.ts buildDataset from the completion of loadSeedPayload to its
\* end: a throw of loadSeedPayload rejects the promise, a payload fulfils it
BuildDatasetSettles ==
    /\ demoDatasetPromise.state = "pending"
    /\ LET loaded == loadSeedPayload(seedFile)
       IN demoDatasetPromise' =
              IF loaded.kind = "throw" THEN PromiseRejected(loaded.value)
              ELSE PromiseFulfilled(buildDatasetFrom(loaded.value))
    /\ builds' = [builds EXCEPT ![Len(builds)] = Some(seedFile)]
    /\ UNCHANGED <<seedFile, db, clock, resp, callers, env>>

\* a caller's await of the promise resumes with the dataset or throws the
\* reason of the rejection
CallerSettles(c) ==
    /\ callers[c].pc = "awaiting"
    /\ demoDatasetPromise.state \in {"fulfilled", "rejected"}
    /\ callers' = [callers EXCEPT
                      ![c].pc = IF demoDatasetPromise.state = "rejected"
                                THEN "threw" ELSE "done",
                      ![c].got = demoDatasetPromise.value]
    /\ UNCHANGED <<seedFile, demoDatasetPromise, db, clock, resp, env, builds>>

\* the seed file is deleted, truncated or written anew on disk
SeedFileReplaced(file) ==
    /\ file /= seedFile
    /\ seedFile' = file
    /\ UNCHANGED <<demoDatasetPromise, db, clock, resp, callers, env, builds>>

NextBroken ==
    \/ \E c \in Readers : GetDemoDataset(c)
    \/ BuildDatasetSettles
    \/ \E c \in Readers : CallerSettles(c)
    \/ \E file \in SeedFilesOnDisk : SeedFileReplaced(file)

SpecBroken == InitBroken /\ [][NextBroken]_vars

\* C28: the seed file is read by at most one build in the life of the
\* process; a rejected promise stays the value of demoDatasetPromise
\* whatever happens to the file, its reason is the error of that one read,
\* and every caller that got its answer after the rejection threw that
\* error
C28_FailedBuildMemoized ==
    /\ [](Len(builds) <= 1)
    /\ [](demoDatasetPromise.state = "rejected" =>
            /\ loadSeedPayload(Get(builds[1])) =
                  [kind |-> "throw", value |-> Get(demoDatasetPromise.value)]
            /\ \A c \in Readers :
                  callers[c].pc \in {"done", "threw"} =>
                      /\ callers[c].pc = "threw"
                      /\ callers[c].got = demoDatasetPromise.value)
    /\ [][demoDatasetPromise.state = "rejected" =>
            demoDatasetPromise' = demoDatasetPromise]_vars

\* the build read a missing file; the file was written since, and a call
\* made on the repaired file threw the error of the first read
C28_Witness ==
    /\ demoDatasetPromise = PromiseRejected(ERR_NoEntry)
    /\ seedFile = FileJson(AccessSeed)
    /\ Len(builds) = 1
    /\ builds[1] = Some(FileMissing)
    /\ callers["late"].pc = "threw"
    /\ callers["late"].calledWhen = "rejected"
    /\ callers["late"].seedAtCall = Some(FileJson(AccessSeed))
    /\ callers["late"].got = Some(ERR_NoEntry)

rolledBack == resp.op = "runIngestionImport" /\ resp.kind = "return" /\ resp.failedAt > 0

\* the statements of the kind that the call issued before the failing one
ranBefore(kind) ==
    Cardinality({i \in 1..(resp.failedAt - 1) :
                    importStatements(resp.req)[i].kind = kind})

\* C29: the result of a run of runIngestionImport that was rolled back
\* counts the sources and events whose upserts ran before the failing
\* statement, and for the links those that ran and were not skipped; the
\* last entry of errors is the message of the failure; the store is what it
\* was before the call; the route answers 200 with this result as data
C29_RolledBackKeepsCounters ==
    rolledBack =>
        /\ resp.result.sources_upserted = ranBefore("source")
        /\ resp.result.events_upserted = ranBefore("event")
        /\ resp.result.event_source_links_upserted
              = ranBefore("link") - (Len(resp.result.errors) - 1)
        /\ Len(resp.result.errors) >= 1
        /\ resp.result.errors[Len(resp.result.errors)] = toErrorMessage(Get(resp.error))
        /\ db = resp.before
        /\ resp.route = [status |-> 200, code |-> "ok", data |-> Some(resp.result)]

\* the second event of the batch names no calendar day: the result counts
\* one source and one event, and the store, empty before, is empty
C29_Witness ==
    /\ rolledBack
    /\ resp.result.sources_upserted = 1
    /\ resp.result.events_upserted = 1
    /\ resp.result.event_source_links_upserted = 0
    /\ resp.result.errors = <<MSG_DateOutOfRange>>
    /\ resp.before = EmptyDb
    /\ db = EmptyDb
    /\ resp.route.status = 200

(***************************************************************************)
(* SpecKeys: one run of import-seed.mjs that merges a file whose events    *)
(* have no slug, or slugs that differ in case or in surrounding blanks,    *)
(* into the main seed file, and the snapshot a process builds afterwards   *)
(***************************************************************************)
MaxFileEvents == 2

KeyEventPool == {
    SeedEvent(None, TXT_Crash, 19291024, TXT_US, TXT_Banking, TXT_Run,
              TXT_AsiaHit, 5, Some("published")),
    SeedEvent(None, TXT_Peg, 19710815, TXT_Asia, TXT_FXPolicy, TXT_Float,
              TXT_NoImpact, 3, Some("published")),
    SeedEvent(Some(<<"a">>), TXT_Crash, 19291024, TXT_US, TXT_Banking, TXT_Run,
              TXT_AsiaHit, 5, Some("published")),
    SeedEvent(Some(<<"A">>), TXT_Peg, 19710815, TXT_Asia, TXT_FXPolicy, TXT_Float,
              TXT_NoImpact, 3, Some("published")),
    SeedEvent(Some(<<" ","a">>), TXT_CcpEra, 20080915, TXT_US, TXT_Banking, TXT_Run,
              TXT_NoImpact, 4, Some("published"))}

KeyFiles ==
    {[sources |-> <<>>, events |-> e, event_sources |-> <<>>] :
        e \in SeqsUpTo(KeyEventPool, MaxFileEvents) \ {<<>>}}

InitKeys ==
    /\ seedFile \in KeyFiles \cup {EmptySeed}
    /\ demoDatasetPromise = PromiseNull
    /\ db = EmptyDb
    /\ clock = 0
    /\ resp = NoResp
    /\ callers = <<>>
    /\ env = [DATABASE_URL |-> None]
    /\ builds = <<>>

\* import-seed.mjs applyDemoFallback for a file other than the main seed
FallbackMerges(payload) ==
    /\ resp = NoResp
    /\ seedFile' = applyDemoFallback(seedFile, payload)
    /\ resp' = [op |-> "applyDemoFallback", mainPayload |-> seedFile,
                payload |-> payload]
    /\ UNCHANGED <<demoDatasetPromise, db, clock, callers, env, builds>>

\* demo-store.ts getDemoDataset of a process started on the merged file
SnapshotBuilt ==
    /\ demoDatasetPromise = PromiseNull
    /\ resp.op = "applyDemoFallback"
    /\ demoDatasetPromise' = PromiseFulfilled(buildDatasetFrom(seedFile))
    /\ builds' = <<seedFile>>
    /\ UNCHANGED <<seedFile, db, clock, resp, callers, env>>

NextKeys ==
    \/ \E payload \in KeyFiles : FallbackMerges(payload)
    \/ SnapshotBuilt

SpecKeys == InitKeys /\ [][NextKeys]_vars

\* the records of base and payload in the order the merge sees them
mergeInput == resp.mainPayload.events \o resp.payload.events

\* C30: after a merge there is, for each trimmed raw slug among the events
\* of the main seed file and of the payload (no slug being the empty key),
\* exactly one event of the merged file, and it is the last of them with
\* that key; the merged file has no other event; and the snapshot built
\* from it gives two of its events one id when their slug, or title for
\* want of a slug, normalise to the same slug
C30_MergeKeysRawSlug ==
    resp.op = "applyDemoFallback" =>
        /\ \A k \in 1..Len(mergeInput) :
              LET key == eventKey(mergeInput[k])
                  held == {m \in 1..Len(seedFile.events) :
                              eventKey(seedFile.events[m]) = key}
              IN /\ Cardinality(held) = 1
                 /\ (\A j \in (k + 1)..Len(mergeInput) : eventKey(mergeInput[j]) /= key)
                       => \A m \in held : seedFile.events[m] = mergeInput[k]
        /\ \A m \in 1..Len(seedFile.events) :
              \E k \in 1..Len(mergeInput) : mergeInput[k] = seedFile.events[m]
        /\ demoDatasetPromise.state = "fulfilled" =>
              LET dataset == Get(demoDatasetPromise.value)
              IN /\ Len(dataset.events) = Len(seedFile.events)
                 /\ \A i, j \in 1..Len(seedFile.events) :
                       (normalizeSlug(OrElse(seedFile.events[i].slug,
                                             seedFile.events[i].title))
                          = normalizeSlug(OrElse(seedFile.events[j].slug,
                                                 seedFile.events[j].title)))
                       <=> dataset.events[i].id = dataset.events[j].id

\* the main seed file had an event without a slug and the event a; the
\* payload brought another event without a slug and the event A: the merged
\* file has the payload's slug-less event, a and A, and a and A have one id
\* in the snapshot
C30_Witness ==
    /\ resp.op = "applyDemoFallback"
    /\ demoDatasetPromise.state = "fulfilled"
    /\ Len(resp.mainPayload.events) = 2
    /\ Len(resp.payload.events) = 2
    /\ resp.mainPayload.events[1].slug = None
    /\ resp.payload.events[1].slug = None
    /\ resp.mainPayload.events[1].title /= resp.payload.events[1].title
    /\ Len(seedFile.events) = 3
    /\ seedFile.events[1] = resp.payload.events[1]
    /\ seedFile.events[2].slug = Some(<<"a">>)
    /\ seedFile.events[3].slug = Some(<<"A">>)
    /\ Get(demoDatasetPromise.value).events[2].id
          = Get(demoDatasetPromise.value).events[3].id
====
